---- MODULE Spec2Model ----
(***************************************************************************)
(* Model of the property-qr service: the QR generator and record store     *)
(* (services/qr_generator.rs, models/qr_code.rs), the property provider    *)
(* (services/property_service.rs, models/property.rs), the scan redirect   *)
(* handler (handlers/scan_handler.rs) and the scan analytics               *)
(* (services/analytics_service.rs, models/scan_analytics.rs).              *)
(*                                                                         *)
(* Every request is a task.  A task's handler is cut into steps at the     *)
(* awaits at which another request can observe or change a shared          *)
(* collection; the steps of one handler run in program order.  The         *)
(* document store is modelled at the interface the code uses: find_one     *)
(* returns the first matching document, replace_one (upsert) replaces the  *)
(* first match or inserts, update_one and delete_one act on the first      *)
(* match, and every write may be refused with a database error.            *)
(***************************************************************************)
EXTENDS Integers, Sequences, FiniteSets, TLC

VARIABLES
    now,            \* Utc::now(), a logical clock
    properties,     \* the "properties" collection: id -> Property
    qr_metadata,    \* the "qr_metadata" collection: sequence of QrCodeMetadata
    s3_objects,     \* keys present in the object store
    tasks,          \* the request slots that may be used
    pc,             \* per task: position in its handler
    req,            \* per task: the request being served
    loc,            \* per task: the handler's local variables
    res,            \* per task: the value returned to the caller
    scan_events,        \* the "scan_events" collection: sequence of ScanEvent
    property_analytics, \* the "property_analytics" collection
    system_analytics,   \* the "system_analytics" collection (at most one document)
    bg,                 \* the tasks started with tokio::spawn that have not ended
    nscans              \* scans received so far

genVars == <<qr_metadata, s3_objects>>
scanVars == <<scan_events, property_analytics, system_analytics, bg, nscans>>
vars == <<now, properties, tasks, pc, req, loc, res, genVars, scanVars>>

(***************************************************************************)
(* Bounds of the model.                                                    *)
(***************************************************************************)
MaxClock == 1       \* the clock ticks at most this many times
MaxVersion == 3     \* no regeneration starts once a record has this version
MaxBatch == 2       \* longest list of ids given to a batch
MaxConcBatch == 1   \* the same, when two requests are served concurrently
MaxPrice == 2       \* largest price of the properties the eligibility is tried on
MaxImages == 2      \* most images such a property has
MaxEvents == 5      \* longest sequence of scan events applied to one aggregate

Tasks == {1, 2}

(***************************************************************************)
(* Option<T>: None is the empty tuple, Some(x) the one-element tuple.      *)
(***************************************************************************)
None == <<>>
Some(x) == <<x>>
IsSome(o) == Len(o) = 1
Unwrap(o) == o[1]

(***************************************************************************)
(* Property ids.  An id is valid when ObjectId::from_str accepts it.       *)
(***************************************************************************)
ValidObjectIds == {"p1", "p2", "p3", "p4", "p5", "ghost"}
AllIds == ValidObjectIds \cup {"bad"}

base_url == "https://qr"
bucket_url == "https://bucket.s3"

AllProperties ==
    [p \in {"p1", "p2", "p3", "p4", "p5"} |->
        CASE p = "p1" -> [property_name |-> "Villa", location |-> "Nairobi",
                          action |-> "for sale", price |-> 50000,
                          images |-> <<"img1", "img2">>, removed |-> Some(FALSE),
                          onchain_id |-> Some("0xabc"), crypto_accepted |-> TRUE,
                          is_verified |-> Some(TRUE), clicks |-> 0]
          [] p = "p2" -> [property_name |-> "Plot", location |-> "Kisumu",
                          action |-> "for sale", price |-> 700,
                          images |-> <<>>, removed |-> None,
                          onchain_id |-> None, crypto_accepted |-> FALSE,
                          is_verified |-> None, clicks |-> 0]
          [] p = "p3" -> [property_name |-> "Flat", location |-> "Mombasa",
                          action |-> "for rent", price |-> 900,
                          images |-> <<"img3">>, removed |-> None,
                          onchain_id |-> None, crypto_accepted |-> FALSE,
                          is_verified |-> None, clicks |-> 0]
          [] p = "p4" -> [property_name |-> "Loft", location |-> "Nakuru",
                          action |-> "for rent", price |-> 1200,
                          images |-> <<"img4">>, removed |-> Some(FALSE),
                          onchain_id |-> Some(""), crypto_accepted |-> TRUE,
                          is_verified |-> Some(FALSE), clicks |-> 0]
          [] p = "p5" -> [property_name |-> "Shed", location |-> "Eldoret",
                          action |-> "for sale", price |-> 300,
                          images |-> <<>>, removed |-> Some(TRUE),
                          onchain_id |-> None, crypto_accepted |-> FALSE,
                          is_verified |-> None, clicks |-> 0]]

(***************************************************************************)
(* models/property.rs                                                      *)
(***************************************************************************)
unwrap_or(o, d) == IF IsSome(o) THEN Unwrap(o) ELSE d

\* Mutant: the price is not looked at.
is_qr_eligible_IgnoresPrice(p) ==
    IF unwrap_or(p.removed, FALSE) THEN FALSE
    ELSE IF Len(p.images) = 0 THEN FALSE
    ELSE TRUE

is_qr_eligible(p) ==
    IF unwrap_or(p.removed, FALSE) THEN FALSE
    ELSE IF Len(p.images) = 0 THEN FALSE
    ELSE IF p.price <= 0 THEN FALSE
    ELSE TRUE

to_qr_info(id, p) ==
    [id |-> id, property_name |-> p.property_name, location |-> p.location,
     action |-> p.action, price |-> p.price,
     onchain_id |-> p.onchain_id, crypto_accepted |-> p.crypto_accepted,
     images |-> p.images, is_verified |-> p.is_verified, removed |-> p.removed]

(***************************************************************************)
(* services/property_service.rs                                            *)
(***************************************************************************)
\* Mutant: the reason is not worked out.
get_ineligibility_reason_Unknown(p) == "Unknown reason"

get_ineligibility_reason(p) ==
    IF unwrap_or(p.removed, FALSE) THEN "Property has been removed"
    ELSE IF Len(p.images) = 0 THEN "Property has no images"
    ELSE IF p.price <= 0 THEN "Property has invalid price"
    ELSE "Unknown reason"

Ok(v) == [ok |-> TRUE, value |-> v]
Err(e, why) == [ok |-> FALSE, error |-> e, reason |-> why]

\* dbOk: whether the find_one on the properties collection is answered.
get_property_by_id(props, id, dbOk) ==
    IF id \notin ValidObjectIds THEN Err("InvalidId", "")
    ELSE IF ~dbOk THEN Err("DatabaseError", "")
    ELSE IF id \notin DOMAIN props THEN Err("NotFound", "")
    ELSE Ok(props[id])

\* Mutant: the eligibility is not checked.
get_property_qr_info_AnyProperty(props, id, dbOk) ==
    LET r == get_property_by_id(props, id, dbOk) IN
    IF ~r.ok THEN r ELSE Ok(to_qr_info(id, r.value))

get_property_qr_info(props, id, dbOk) ==
    LET r == get_property_by_id(props, id, dbOk) IN
    IF ~r.ok THEN r
    ELSE IF ~is_qr_eligible(r.value)
         THEN Err("NotEligibleForQr", get_ineligibility_reason(r.value))
         ELSE Ok(to_qr_info(id, r.value))

(***************************************************************************)
(* models/qr_code.rs                                                       *)
(***************************************************************************)
Digit(n) == CASE n = 0 -> "0" [] n = 1 -> "1" [] n = 2 -> "2" [] n = 3 -> "3"
              [] n = 4 -> "4" [] n = 5 -> "5" [] n = 6 -> "6" [] n = 7 -> "7"
              [] n = 8 -> "8" [] n = 9 -> "9"

RECURSIVE IntToString(_)
IntToString(n) == IF n < 10 THEN Digit(n) ELSE IntToString(n \div 10) \o Digit(n % 10)

\* QrCodeData::new
QrCodeData_new(property_id, scan_base_url, t) ==
    [qr_type |-> "daobitat_property", property_id |-> property_id,
     scan_url |-> scan_base_url \o "/scan/" \o property_id,
     version |-> "1.0", timestamp |-> t]

\* QrCodeData::to_json_string (serde_json, fields in declaration order)
to_json_string(d) ==
    "{type:" \o d.qr_type \o ",propertyId:" \o d.property_id \o ",scanUrl:"
    \o d.scan_url \o ",version:" \o d.version \o ",timestamp:"
    \o IntToString(d.timestamp) \o "}"

\* format!("{:x}", Sha256(pattern)): the digest is kept symbolic
sha256_hex(pattern) == "sha256(" \o pattern \o ")"

\* Mutant: the first record starts at version 0.
QrCodeMetadata_new_VersionZero(property_id, qr_pattern, qr_code_url, metadata, t) ==
    [property_id |-> property_id, qr_code_url |-> qr_code_url,
     qr_pattern |-> qr_pattern, qr_code_hash |-> sha256_hex(qr_pattern),
     generated_at |-> t, last_updated |-> t, scan_count |-> 0,
     last_scanned |-> None, is_active |-> TRUE, qr_version |-> 0,
     metadata |-> metadata]

\* QrCodeMetadata::new
QrCodeMetadata_new(property_id, qr_pattern, qr_code_url, metadata, t) ==
    [property_id |-> property_id, qr_code_url |-> qr_code_url,
     qr_pattern |-> qr_pattern, qr_code_hash |-> sha256_hex(qr_pattern),
     generated_at |-> t, last_updated |-> t, scan_count |-> 0,
     last_scanned |-> None, is_active |-> TRUE, qr_version |-> 1,
     metadata |-> metadata]

\* Mutant: a regeneration that keeps the version.
regenerate_SameVersion(self, new_pattern, new_url, t) ==
    [self EXCEPT !.qr_pattern = new_pattern, !.qr_code_url = new_url,
                 !.qr_code_hash = sha256_hex(new_pattern),
                 !.last_updated = t, !.is_active = TRUE]

\* Mutant: a regeneration that keeps the old hash.
regenerate_StaleHash(self, new_pattern, new_url, t) ==
    [self EXCEPT !.qr_pattern = new_pattern, !.qr_code_url = new_url,
                 !.qr_version = self.qr_version + 1,
                 !.last_updated = t, !.is_active = TRUE]

\* QrCodeMetadata::regenerate
regenerate(self, new_pattern, new_url, t) ==
    [self EXCEPT !.qr_pattern = new_pattern, !.qr_code_url = new_url,
                 !.qr_code_hash = sha256_hex(new_pattern),
                 !.qr_version = self.qr_version + 1,
                 !.last_updated = t, !.is_active = TRUE]

get_s3_key(property_id) == "qr-images/" \o property_id \o ".png"

(***************************************************************************)
(* services/s3_service.rs                                                  *)
(***************************************************************************)
get_public_url(key) == bucket_url \o "/" \o key

(***************************************************************************)
(* The document store, as the generator uses it on qr_metadata.            *)
(***************************************************************************)
Matching(coll, property_id) ==
    {i \in 1..Len(coll) : coll[i].property_id = property_id}

FirstMatch(coll, property_id) ==
    CHOOSE i \in Matching(coll, property_id) :
        \A j \in Matching(coll, property_id) : i <= j

RemoveAt(coll, i) == SubSeq(coll, 1, i - 1) \o SubSeq(coll, i + 1, Len(coll))

\* find_one(doc!{"propertyId": id})?.ok_or(PropertyNotFound).  dbOk: whether
\* the find_one is answered.
get_existing_qr(coll, property_id, dbOk) ==
    IF ~dbOk THEN Err("DatabaseError", "")
    ELSE IF Matching(coll, property_id) = {} THEN Err("PropertyNotFound", "")
    ELSE Ok(coll[FirstMatch(coll, property_id)])

\* Mutant: an insert instead of an upsert.
upsert_qr_metadata_Insert(coll, doc) == Append(coll, doc)

\* replace_one(filter propertyId, doc) with upsert(true)
upsert_qr_metadata(coll, doc) ==
    IF Matching(coll, doc.property_id) = {} THEN Append(coll, doc)
    ELSE [coll EXCEPT ![FirstMatch(coll, doc.property_id)] = doc]

(***************************************************************************)
(* services/qr_generator.rs: QrGeneratorService                            *)
(***************************************************************************)
GenerationReasons == {"NewProperty", "ManualRegeneration", "BatchGeneration"}

\* Calls a generate_qr_code invocation has made to its collaborators.
ZeroCalls == [lookup |-> 0, encode |-> 0, upload |-> 0, upsert |-> 0, read_failed |-> 0]

NoReq == [op |-> "none"]
NoRes == [ok |-> FALSE, error |-> "pending", reason |-> ""]
IdleLoc == [calls |-> ZeroCalls]

\* Locals of batch_generate_qr_codes (i, successful, failed) and of the
\* generate_qr_code call in progress.
GenLoc(i, successful, failed) ==
    [i |-> i, successful |-> successful, failed |-> failed,
     qr_json |-> None, metadata |-> None, doc |-> None, calls |-> ZeroCalls]

CurId(t) == req[t].ids[loc[t].i]

\* Mutant: a failed property lookup is answered as a success.
MapPropertyError_Swallowed(e) == Ok([status |-> "Generated"])

\* The map_err of generate_qr_code on PropertyError (lines 125-130)
MapPropertyError(e) ==
    CASE e.error = "NotFound" -> Err("PropertyNotFound", "")
      [] e.error = "NotEligibleForQr" -> Err("PropertyNotEligible", e.reason)
      [] e.error = "InvalidId" -> Err("InvalidPropertyId", "")
      [] e.error = "DatabaseError" -> Err("DatabaseError", "")

\* Display for QrGeneratorError
ErrorToString(e) ==
    CASE e.error = "PropertyNotFound" -> "Property not found"
      [] e.error = "PropertyNotEligible" -> "Property not eligible: " \o e.reason
      [] e.error = "QrGenerationFailed" -> "QR generation failed: " \o e.reason
      [] e.error = "S3UploadFailed" -> "S3 upload failed: " \o e.reason
      [] e.error = "DatabaseError" -> "Database error: " \o e.reason
      [] e.error = "InvalidPropertyId" -> "Invalid property ID"

\* The error_code match of batch_generate_qr_codes
ErrorCode(e) ==
    CASE e.error = "PropertyNotFound" -> "PROPERTY_NOT_FOUND"
      [] e.error = "PropertyNotEligible" -> "PROPERTY_NOT_ELIGIBLE"
      [] e.error = "QrGenerationFailed" -> "QR_GENERATION_FAILED"
      [] e.error = "S3UploadFailed" -> "S3_UPLOAD_FAILED"
      [] e.error = "DatabaseError" -> "DATABASE_ERROR"
      [] e.error = "InvalidPropertyId" -> "INVALID_PROPERTY_ID"

QrCodeResponse(property_id, qr_code_url, generated_at, metadata, status) ==
    [property_id |-> property_id, qr_code_url |-> qr_code_url,
     scan_url |-> base_url \o "/scan/" \o property_id,
     generated_at |-> generated_at, metadata |-> metadata, status |-> status]

\* Mutant: only the successes are counted as requested.
BatchQrCodeResponse_CountsSuccesses(successful, failed, total_requested) ==
    [successful |-> successful, failed |-> failed,
     total_requested |-> Len(successful),
     total_successful |-> Len(successful), total_failed |-> Len(failed)]

BatchQrCodeResponse(successful, failed, total_requested) ==
    [successful |-> successful, failed |-> failed,
     total_requested |-> total_requested,
     total_successful |-> Len(successful), total_failed |-> Len(failed)]

\* handlers/qr_handler.rs: SuccessResponse::new and ErrorResponse::new with
\* the status code the handler sends.
SuccessResponse(data, t) == [success |-> TRUE, data |-> data, timestamp |-> t]
ErrorResponse(status_code, error, message, t) ==
    [ok |-> FALSE, status_code |-> status_code, error |-> error,
     message |-> message, timestamp |-> t]

\* What the caller of a batch receives for the service's answer: the
\* answer itself, or the handler's wrapping of it (qr_handler.rs 164-172).
BatchAnswer(http, batch_response, t) ==
    IF http THEN Ok(SuccessResponse(batch_response, t)) ELSE Ok(batch_response)

\* The QrMetadata snapshot built from the fetched PropertyQrInfo (lines 148-159)
QrMetadata(info, reason) ==
    [property_name |-> info.property_name, location |-> info.location,
     action |-> info.action, price |-> info.price,
     onchain_id |-> info.onchain_id, crypto_accepted |-> info.crypto_accepted,
     primary_image |-> IF Len(info.images) > 0 THEN Some(info.images[1]) ELSE None,
     is_verified |-> unwrap_or(info.is_verified, FALSE),
     generation_reason |-> reason]

\* Mutant: the fast path is gone, every call generates.
ExistsFastPath_Skipped(coll, property_id, force_regenerate, dbOk) == None

\* Mutant: the fast path is taken for an inactive record too.
ExistsFastPath_IgnoresActive(coll, property_id, force_regenerate, dbOk) ==
    IF force_regenerate THEN None
    ELSE LET existing == get_existing_qr(coll, property_id, dbOk) IN
         IF existing.ok
         THEN Some(QrCodeResponse(property_id, existing.value.qr_code_url,
                                  existing.value.generated_at,
                                  existing.value.metadata, "Exists"))
         ELSE None

\* The fast path of generate_qr_code (lines 106-119): the response to
\* return at once, or None to go on with the generation.
ExistsFastPath(coll, property_id, force_regenerate, dbOk) ==
    IF force_regenerate THEN None
    ELSE LET existing == get_existing_qr(coll, property_id, dbOk) IN
         IF existing.ok /\ existing.value.is_active
         THEN Some(QrCodeResponse(property_id, existing.value.qr_code_url,
                                  existing.value.generated_at,
                                  existing.value.metadata, "Exists"))
         ELSE None

\* The record to save (lines 162-172), built at time t from the store as
\* read at that moment.
BuildRecord(coll, property_id, force_regenerate, qr_json, qr_code_url, metadata, t, dbOk) ==
    IF force_regenerate
    THEN LET found == get_existing_qr(coll, property_id, dbOk)
             existing == IF found.ok THEN found.value
                         ELSE QrCodeMetadata_new(property_id, qr_json,
                                                 qr_code_url, metadata, t)
         IN [regenerate(existing, qr_json, qr_code_url, t)
                EXCEPT !.metadata = metadata]
    ELSE QrCodeMetadata_new(property_id, qr_json, qr_code_url, metadata, t)

\* A generate_qr_code call of task t returns `outcome`: to the caller of a
\* single generate, or into the lists of the batch loop (lines 208-230).
GenReturn(t, outcome, calls) ==
    IF req[t].op = "generate"
    THEN /\ pc' = [pc EXCEPT ![t] = "done"]
         /\ res' = [res EXCEPT ![t] = outcome]
         /\ loc' = [loc EXCEPT ![t] = [calls |-> calls]]
    ELSE LET successful == IF outcome.ok
                           THEN Append(loc[t].successful, outcome.value)
                           ELSE loc[t].successful
             failed == IF outcome.ok THEN loc[t].failed
                       ELSE Append(loc[t].failed,
                                   [property_id |-> CurId(t),
                                    error |-> ErrorToString(outcome),
                                    error_code |-> ErrorCode(outcome)])
         IN IF loc[t].i < Len(req[t].ids)
            THEN /\ pc' = [pc EXCEPT ![t] = "gen_check"]
                 /\ loc' = [loc EXCEPT ![t] = GenLoc(loc[t].i + 1, successful, failed)]
                 /\ res' = res
            ELSE /\ pc' = [pc EXCEPT ![t] = "done"]
                 /\ res' = [res EXCEPT ![t] =
                               BatchAnswer(req[t].http,
                                           BatchQrCodeResponse(successful, failed,
                                                               Len(req[t].ids)),
                                           now)]
                 /\ loc' = [loc EXCEPT ![t] = [calls |-> calls]]

(***************************************************************************)
(* Requests.                                                               *)
(***************************************************************************)
BatchIds == {"p1", "p2"}
IdLists == UNION {[1..n -> BatchIds] : n \in 0..MaxBatch}

VersionBelowCap == \A i \in 1..Len(qr_metadata) : qr_metadata[i].qr_version < MaxVersion

\* generate_qr_code(property_id, force_regenerate, reason) is called
StartGenerate(t, property_id, force_regenerate, reason) ==
    /\ t \in tasks /\ pc[t] = "idle"
    /\ force_regenerate => VersionBelowCap
    /\ req' = [req EXCEPT ![t] = [op |-> "generate", ids |-> <<property_id>>,
                                  force_regenerate |-> force_regenerate,
                                  reason |-> reason]]
    /\ loc' = [loc EXCEPT ![t] = GenLoc(1, <<>>, <<>>)]
    /\ pc' = [pc EXCEPT ![t] = "gen_check"]
    /\ UNCHANGED <<now, properties, qr_metadata, s3_objects, tasks, res, scanVars>>

\* batch_generate_qr_codes(property_ids, force_regenerate, reason) is called
StartBatch(t, property_ids, force_regenerate, reason) ==
    /\ t \in tasks /\ pc[t] = "idle"
    /\ force_regenerate => VersionBelowCap
    /\ req' = [req EXCEPT ![t] = [op |-> "batch", ids |-> property_ids,
                                  force_regenerate |-> force_regenerate,
                                  reason |-> reason, http |-> FALSE]]
    /\ IF Len(property_ids) = 0
       THEN /\ pc' = [pc EXCEPT ![t] = "done"]
            /\ res' = [res EXCEPT ![t] = Ok(BatchQrCodeResponse(<<>>, <<>>, 0))]
            /\ loc' = loc
       ELSE /\ pc' = [pc EXCEPT ![t] = "gen_check"]
            /\ loc' = [loc EXCEPT ![t] = GenLoc(1, <<>>, <<>>)]
            /\ res' = res
    /\ UNCHANGED <<now, properties, qr_metadata, s3_objects, tasks, scanVars>>

\* Longest list POST /qr/generate/batch accepts.
MaxBatchRequest == 100

\* POST /qr/generate/batch (qr_handler.rs 136-174): the handler validates
\* the list, then calls batch_generate_qr_codes.
PostGenerateBatch(t, property_ids, force_regenerate, reason) ==
    /\ t \in tasks /\ pc[t] = "idle"
    /\ force_regenerate => VersionBelowCap
    /\ req' = [req EXCEPT ![t] = [op |-> "batch", ids |-> property_ids,
                                  force_regenerate |-> force_regenerate,
                                  reason |-> reason, http |-> TRUE]]
    /\ IF Len(property_ids) = 0
       THEN /\ pc' = [pc EXCEPT ![t] = "done"]
            /\ res' = [res EXCEPT ![t] =
                          ErrorResponse(400, "validation_error",
                                        "Property IDs list cannot be empty", now)]
            /\ loc' = loc
       ELSE IF Len(property_ids) > MaxBatchRequest
       THEN /\ pc' = [pc EXCEPT ![t] = "done"]
            /\ res' = [res EXCEPT ![t] =
                          ErrorResponse(400, "validation_error",
                                        "Cannot process more than 100 properties at once", now)]
            /\ loc' = loc
       ELSE /\ pc' = [pc EXCEPT ![t] = "gen_check"]
            /\ loc' = [loc EXCEPT ![t] = GenLoc(1, <<>>, <<>>)]
            /\ res' = res
    /\ UNCHANGED <<now, properties, qr_metadata, s3_objects, tasks, scanVars>>

\* BSON values as a query compares them: a value equals another only when
\* both have the same type.
BsonObjectId(hex) == [bson |-> "objectId", value |-> hex]
BsonString(str) == [bson |-> "string", value |-> str]

\* The order in which a find without sort returns the properties.
NaturalOrder == <<"p1", "p2", "p3", "p4", "p5">>

\* get_properties_needing_qr: find with the filter removed $ne true,
\* images.0 $exists, price $gt 0, _id $nin qr_property_ids, then
\* is_qr_eligible on each document.  _id is an ObjectId; the ids of the
\* $nin list are the strings passed in.
get_properties_needing_qr(props, qr_property_ids) ==
    LET excluded == {BsonString(qr_property_ids[i]) : i \in 1..Len(qr_property_ids)}
        matches(id) ==
            /\ id \in DOMAIN props
            /\ props[id].removed # Some(TRUE)
            /\ Len(props[id].images) >= 1
            /\ props[id].price > 0
            /\ BsonObjectId(id) \notin excluded
            /\ is_qr_eligible(props[id])
    IN SelectSeq(NaturalOrder, matches)

\* get_all_qr_property_ids: the propertyId of every record
get_all_qr_property_ids(coll) == [i \in 1..Len(coll) |-> coll[i].property_id]

\* generate_missing_qr_codes (lines 345-372): the two listings, then the
\* batch.  qrOk, propsOk: whether the find on qr_metadata and the find on
\* properties are answered.
GenerateMissing(t, qrOk, propsOk) ==
    /\ t \in tasks /\ pc[t] = "idle"
    /\ LET existing_qr_property_ids == get_all_qr_property_ids(qr_metadata)
           property_ids == get_properties_needing_qr(properties, existing_qr_property_ids)
       IN
       /\ req' = [req EXCEPT ![t] =
                     [op |-> "generate_missing",
                      ids |-> IF qrOk /\ propsOk THEN property_ids ELSE <<>>,
                      force_regenerate |-> FALSE,
                      reason |-> "BatchGeneration", http |-> FALSE]]
       /\ IF ~(qrOk /\ propsOk)
          THEN /\ pc' = [pc EXCEPT ![t] = "done"]
               /\ res' = [res EXCEPT ![t] = Err("DatabaseError", "")]
               /\ loc' = loc
          ELSE IF Len(property_ids) = 0
          THEN /\ pc' = [pc EXCEPT ![t] = "done"]
               /\ res' = [res EXCEPT ![t] = Ok(BatchQrCodeResponse(<<>>, <<>>, 0))]
               /\ loc' = loc
          ELSE /\ pc' = [pc EXCEPT ![t] = "gen_check"]
               /\ loc' = [loc EXCEPT ![t] = GenLoc(1, <<>>, <<>>)]
               /\ res' = res
    /\ UNCHANGED <<now, properties, qr_metadata, s3_objects, tasks, scanVars>>

\* How a timestamp reaches the store.  QrCodeMetadata derives Serialize with
\* no serde helper on its DateTime<Utc> fields (models/qr_code.rs 20-23), so
\* chrono's own Serialize writes generatedAt as an RFC 3339 string;
\* utc_to_bson (qr_generator.rs 37-39) builds a BSON date.
chrono_serialize(dt) == [bson |-> "string", value |-> dt]
utc_to_bson(dt) == [bson |-> "dateTime", value |-> dt]

\* $lt of the store: a comparison operator matches only values of the
\* operand's own BSON type.
BsonLt(a, b) == a.bson = b.bson /\ a.value < b.value

\* The expiry periods asked for, in clock units (days).
ExpiryDays == {0, 1}

\* get_qr_codes_needing_regeneration (lines 320-338): the propertyId of the
\* records matching generatedAt $lt cutoff and isActive true, at time t.
get_qr_codes_needing_regeneration(coll, expiry_days, t) ==
    LET cutoff_date == t - expiry_days
        matches(r) ==
            /\ BsonLt(chrono_serialize(r.generated_at), utc_to_bson(cutoff_date))
            /\ r.is_active = TRUE
        found == SelectSeq(coll, matches)
    IN [i \in 1..Len(found) |-> found[i].property_id]

\* A caller of get_qr_codes_needing_regeneration.  dbOk: whether the find
\* is answered.
NeedingRegeneration(t, expiry_days, dbOk) ==
    /\ t \in tasks /\ pc[t] = "idle"
    /\ req' = [req EXCEPT ![t] =
                  [op |-> "needing_regeneration", expiry_days |-> expiry_days]]
    /\ pc' = [pc EXCEPT ![t] = "done"]
    /\ res' = [res EXCEPT ![t] =
                  IF dbOk
                  THEN Ok(get_qr_codes_needing_regeneration(qr_metadata, expiry_days, now))
                  ELSE Err("DatabaseError", "")]
    /\ UNCHANGED <<now, properties, qr_metadata, s3_objects, tasks, loc, scanVars>>

\* generate_qr_code lines 105-119: the existing-record check.  dbOk: whether
\* its find_one is answered (it is not made under force_regenerate); an
\* error counts as no record.
GenCheck(t, dbOk) ==
    /\ pc[t] = "gen_check"
    /\ req[t].force_regenerate => dbOk
    /\ LET hit == ExistsFastPath(qr_metadata, CurId(t), req[t].force_regenerate, dbOk) IN
       IF IsSome(hit)
       THEN GenReturn(t, Ok(Unwrap(hit)), loc[t].calls)
       ELSE /\ pc' = [pc EXCEPT ![t] = "gen_build"]
            /\ loc' = [loc EXCEPT ![t].calls.read_failed =
                                      IF dbOk THEN @ ELSE @ + 1]
            /\ res' = res
    /\ UNCHANGED <<now, properties, qr_metadata, s3_objects, tasks, req, scanVars>>

\* generate_qr_code lines 121-172 up to the next access to qr_metadata:
\* property lookup, payload, image encoding, upload, metadata snapshot and,
\* without force_regenerate, the new record.  `fault` is what the
\* collaborators do: all succeed, or one of them fails.
GenBuild(t, fault) ==
    /\ pc[t] = "gen_build"
    /\ LET id == CurId(t)
           info == get_property_qr_info(properties, id, fault # "lookup_db")
           qr_json == to_json_string(QrCodeData_new(id, base_url, now))
           url == get_public_url(get_s3_key(id))
           c1 == [loc[t].calls EXCEPT !.lookup = @ + 1]
           c2 == [c1 EXCEPT !.encode = @ + 1]
           c3 == [c2 EXCEPT !.upload = @ + 1]
       IN
       IF ~info.ok
       THEN /\ fault \in {"none", "lookup_db"}
            /\ GenReturn(t, MapPropertyError(info), c1)
            /\ s3_objects' = s3_objects
       ELSE IF fault = "json"
       THEN /\ GenReturn(t, Err("QrGenerationFailed", "json"), c1)
            /\ s3_objects' = s3_objects
       ELSE IF fault = "encode"
       THEN /\ GenReturn(t, Err("QrGenerationFailed", "encode"), c2)
            /\ s3_objects' = s3_objects
       ELSE IF fault = "upload"
       THEN /\ GenReturn(t, Err("S3UploadFailed", "upload"), c3)
            /\ s3_objects' = s3_objects
       ELSE /\ s3_objects' = s3_objects \cup {get_s3_key(id)}
            /\ LET metadata == QrMetadata(info.value, req[t].reason) IN
               IF req[t].force_regenerate
               THEN /\ pc' = [pc EXCEPT ![t] = "gen_reread"]
                    /\ loc' = [loc EXCEPT ![t].qr_json = Some(qr_json),
                                          ![t].metadata = Some(metadata),
                                          ![t].calls = c3]
               ELSE /\ pc' = [pc EXCEPT ![t] = "gen_upsert"]
                    /\ loc' = [loc EXCEPT ![t].metadata = Some(metadata),
                                          ![t].doc = Some(BuildRecord(qr_metadata, id, FALSE,
                                                                 qr_json, url, metadata, now, TRUE)),
                                          ![t].calls = c3]
            /\ res' = res
    /\ UNCHANGED <<now, properties, qr_metadata, tasks, req, scanVars>>

\* generate_qr_code lines 162-168: the second read, under force_regenerate.
\* dbOk: whether its find_one is answered; an error counts as no record.
GenReread(t, dbOk) ==
    /\ pc[t] = "gen_reread"
    /\ VersionBelowCap
    /\ LET id == CurId(t) IN
       loc' = [loc EXCEPT ![t].doc =
                  Some(BuildRecord(qr_metadata, id, TRUE, Unwrap(loc[t].qr_json),
                                   get_public_url(get_s3_key(id)),
                                   Unwrap(loc[t].metadata), now, dbOk)),
                          ![t].calls.read_failed = IF dbOk THEN @ ELSE @ + 1]
    /\ pc' = [pc EXCEPT ![t] = "gen_upsert"]
    /\ UNCHANGED <<now, properties, qr_metadata, s3_objects, tasks, req, res, scanVars>>

\* generate_qr_code lines 174-192: save and answer
GenUpsert(t, dbOk) ==
    /\ pc[t] = "gen_upsert"
    /\ LET doc == Unwrap(loc[t].doc)
           calls == [loc[t].calls EXCEPT !.upsert = @ + 1]
       IN
       IF dbOk
       THEN /\ qr_metadata' = upsert_qr_metadata(qr_metadata, doc)
            /\ GenReturn(t, Ok(QrCodeResponse(CurId(t), doc.qr_code_url,
                                  doc.generated_at, Unwrap(loc[t].metadata),
                                  IF req[t].force_regenerate THEN "Regenerated"
                                  ELSE "Generated")), calls)
       ELSE /\ qr_metadata' = qr_metadata
            /\ GenReturn(t, Err("DatabaseError", ""), calls)
    /\ UNCHANGED <<now, properties, s3_objects, tasks, req, scanVars>>

\* Mutant: the update sets the version back to 1 as well.
deactivate_update_ResetsVersion(coll, property_id, t) ==
    IF Matching(coll, property_id) = {} THEN coll
    ELSE [coll EXCEPT ![FirstMatch(coll, property_id)] =
             [@ EXCEPT !.is_active = FALSE, !.last_updated = t, !.qr_version = 1]]

\* update_one(filter propertyId, $set isActive false, lastUpdated now):
\* the collection afterwards
deactivate_update(coll, property_id, t) ==
    IF Matching(coll, property_id) = {} THEN coll
    ELSE [coll EXCEPT ![FirstMatch(coll, property_id)] =
             [@ EXCEPT !.is_active = FALSE, !.last_updated = t]]

\* deactivate_qr_code (lines 274-288): one update_one, Ok(modified_count > 0)
Deactivate(t, property_id, dbOk) ==
    /\ t \in tasks /\ pc[t] = "idle"
    /\ req' = [req EXCEPT ![t] = [op |-> "deactivate", ids |-> <<property_id>>]]
    /\ IF dbOk
       THEN /\ qr_metadata' = deactivate_update(qr_metadata, property_id, now)
            /\ res' = [res EXCEPT ![t] = Ok(qr_metadata' # qr_metadata)]
       ELSE /\ qr_metadata' = qr_metadata
            /\ res' = [res EXCEPT ![t] = Err("DatabaseError", "")]
    /\ pc' = [pc EXCEPT ![t] = "done"]
    /\ UNCHANGED <<now, properties, s3_objects, tasks, loc, scanVars>>

\* delete_qr_code lines 256-264: look the record up and delete its image;
\* a failure of the lookup (dbOk) skips the image, a failure of the object
\* store (s3Ok) is logged and ignored
DeleteImage(t, property_id, dbOk, s3Ok) ==
    /\ t \in tasks /\ pc[t] = "idle"
    /\ req' = [req EXCEPT ![t] = [op |-> "delete", ids |-> <<property_id>>]]
    /\ LET existing == get_existing_qr(qr_metadata, property_id, dbOk) IN
       IF existing.ok /\ s3Ok
       THEN s3_objects' = s3_objects \ {get_s3_key(existing.value.property_id)}
       ELSE s3_objects' = s3_objects
    /\ pc' = [pc EXCEPT ![t] = "del_remove"]
    /\ UNCHANGED <<now, properties, qr_metadata, tasks, loc, res, scanVars>>

\* Mutant: nothing is removed.
delete_one_Keeps(coll, property_id) == coll

\* delete_one(filter propertyId): the collection afterwards
delete_one(coll, property_id) ==
    IF Matching(coll, property_id) = {} THEN coll
    ELSE RemoveAt(coll, FirstMatch(coll, property_id))

\* delete_qr_code lines 266-271: Ok(deleted_count > 0)
DeleteRecord(t, dbOk) ==
    /\ pc[t] = "del_remove"
    /\ IF dbOk
       THEN /\ qr_metadata' = delete_one(qr_metadata, req[t].ids[1])
            /\ res' = [res EXCEPT ![t] = Ok(Len(qr_metadata') < Len(qr_metadata))]
       ELSE /\ qr_metadata' = qr_metadata
            /\ res' = [res EXCEPT ![t] = Err("DatabaseError", "")]
    /\ pc' = [pc EXCEPT ![t] = "done"]
    /\ UNCHANGED <<now, properties, s3_objects, tasks, req, loc, scanVars>>

\* The caller receives the result; the request slot is free again.
Return(t) ==
    /\ pc[t] = "done"
    /\ pc' = [pc EXCEPT ![t] = "idle"]
    /\ req' = [req EXCEPT ![t] = NoReq]
    /\ loc' = [loc EXCEPT ![t] = IdleLoc]
    /\ res' = [res EXCEPT ![t] = NoRes]
    /\ UNCHANGED <<now, properties, qr_metadata, s3_objects, tasks, scanVars>>

\* Time passes.
Tick ==
    /\ now < MaxClock
    /\ now' = now + 1
    /\ UNCHANGED <<properties, qr_metadata, s3_objects, tasks, pc, req, loc, res, scanVars>>

(***************************************************************************)
(* Scan analytics: models/scan_analytics.rs                                *)
(***************************************************************************)
Contains(s, sub) ==
    \E i \in 1..(Len(s) - Len(sub) + 1) : SubSeq(s, i, i + Len(sub) - 1) = sub

\* char::to_lowercase on the letters the user agents are written with.
LowerOf(c) ==
    CASE c = "A" -> "a" [] c = "B" -> "b" [] c = "C" -> "c" [] c = "D" -> "d"
      [] c = "E" -> "e" [] c = "F" -> "f" [] c = "G" -> "g" [] c = "H" -> "h"
      [] c = "I" -> "i" [] c = "J" -> "j" [] c = "K" -> "k" [] c = "L" -> "l"
      [] c = "M" -> "m" [] c = "N" -> "n" [] c = "O" -> "o" [] c = "P" -> "p"
      [] c = "Q" -> "q" [] c = "R" -> "r" [] c = "S" -> "s" [] c = "T" -> "t"
      [] c = "U" -> "u" [] c = "V" -> "v" [] c = "W" -> "w" [] c = "X" -> "x"
      [] c = "Y" -> "y" [] c = "Z" -> "z" [] OTHER -> c

RECURSIVE to_lowercase(_)
to_lowercase(s) ==
    IF Len(s) = 0 THEN ""
    ELSE LowerOf(SubSeq(s, 1, 1)) \o to_lowercase(SubSeq(s, 2, Len(s)))

\* DeviceInfo::from_user_agent
from_user_agent(user_agent) ==
    LET user_agent_lower == to_lowercase(user_agent)
        is_mobile == \/ Contains(user_agent_lower, "mobile")
                     \/ Contains(user_agent_lower, "android")
                     \/ Contains(user_agent_lower, "iphone")
        is_tablet == \/ Contains(user_agent_lower, "tablet")
                     \/ Contains(user_agent_lower, "ipad")
        device_type == IF is_tablet THEN "Tablet"
                       ELSE IF is_mobile THEN "Mobile" ELSE "Desktop"
        platform ==
            IF Contains(user_agent_lower, "windows") THEN Some("Windows")
            ELSE IF Contains(user_agent_lower, "mac") THEN Some("macOS")
            ELSE IF Contains(user_agent_lower, "linux") THEN Some("Linux")
            ELSE IF Contains(user_agent_lower, "android") THEN Some("Android")
            ELSE IF \/ Contains(user_agent_lower, "ios")
                    \/ Contains(user_agent_lower, "iphone") THEN Some("iOS")
            ELSE None
        browser ==
            IF Contains(user_agent_lower, "chrome") THEN Some("Chrome")
            ELSE IF Contains(user_agent_lower, "firefox") THEN Some("Firefox")
            ELSE IF /\ Contains(user_agent_lower, "safari")
                    /\ ~Contains(user_agent_lower, "chrome") THEN Some("Safari")
            ELSE IF Contains(user_agent_lower, "edge") THEN Some("Edge")
            ELSE None
    IN [device_type |-> device_type, platform |-> platform, browser |-> browser,
        is_mobile |-> is_mobile]

\* ScanEvent::new followed by with_request_data and with_device_info.  The
\* id stands for the fresh ObjectId: k numbers the scans.
ScanEvent_new(k, property_id, qr_version, scan_source, redirect_type, user_agent, t) ==
    [id |-> <<"event", k>>, property_id |-> property_id, qr_version |-> qr_version,
     scanned_at |-> t, scan_source |-> scan_source, user_agent |-> user_agent,
     device_info |-> IF IsSome(user_agent)
                     THEN Some(from_user_agent(Unwrap(user_agent))) ELSE None,
     redirect_success |-> TRUE, redirect_type |-> redirect_type,
     metadata |-> {}]

\* Mutant: the event is typed Failed but still counts as a success.
mark_failed_KeepsSuccess(e) == [e EXCEPT !.redirect_type = "Failed"]

\* ScanEvent::mark_failed
mark_failed(e) == [e EXCEPT !.redirect_success = FALSE, !.redirect_type = "Failed"]

\* ScanEvent::add_metadata
add_metadata(e, key, value) ==
    [e EXCEPT !.metadata = {m \in @ : m.key # key} \cup {[key |-> key, value |-> value]}]

\* Rates are exact fractions <<numerator, denominator>> in lowest terms.
RECURSIVE GCD(_, _)
GCD(a, b) == IF b = 0 THEN a ELSE GCD(b, a % b)

Frac(n, d) == LET g == GCD(n, d) IN <<n \div g, d \div g>>

\* PropertyScanAnalytics::new
PropertyScanAnalytics_new(property_id, t) ==
    [property_id |-> property_id, total_scans |-> 0,
     last_scanned |-> None, first_scanned |-> None,
     scans_today |-> 0, scans_this_week |-> 0, scans_this_month |-> 0,
     device_breakdown |-> [mobile |-> 0, desktop |-> 0, tablet |-> 0, unknown |-> 0],
     success_rate |-> Frac(100, 1), last_updated |-> t]

\* Mutant: the rate is the average of the old rate and the new outcome.
update_with_scan_HalfWeight(self, scan_event, t) ==
    [self EXCEPT
       !.total_scans = @ + 1,
       !.last_scanned = Some(scan_event.scanned_at),
       !.success_rate =
           Frac(self.success_rate[1]
                    + (IF scan_event.redirect_success THEN 100 ELSE 0) * self.success_rate[2],
                self.success_rate[2] * 2),
       !.last_updated = t]

\* PropertyScanAnalytics::update_with_scan
update_with_scan(self, scan_event, t) ==
    LET total == self.total_scans + 1
        dt == IF IsSome(scan_event.device_info)
              THEN Unwrap(scan_event.device_info).device_type ELSE "none"
        db == self.device_breakdown
        successful == IF scan_event.redirect_success THEN 1 ELSE 0
    IN [self EXCEPT
          !.total_scans = total,
          !.last_scanned = Some(scan_event.scanned_at),
          !.first_scanned = IF IsSome(self.first_scanned) THEN self.first_scanned
                            ELSE Some(scan_event.scanned_at),
          !.device_breakdown =
              [mobile  |-> db.mobile + (IF dt = "Mobile" THEN 1 ELSE 0),
               desktop |-> db.desktop + (IF dt = "Desktop" THEN 1 ELSE 0),
               tablet  |-> db.tablet + (IF dt = "Tablet" THEN 1 ELSE 0),
               unknown |-> db.unknown + (IF dt = "Unknown" THEN 1 ELSE 0)],
          !.success_rate =
              Frac(self.success_rate[1] * (total - 1)
                       + successful * 100 * self.success_rate[2],
                   self.success_rate[2] * total),
          !.last_updated = t]

\* The clock counts days.  Day 0 is a Sunday, the last day of a month.
DaysPerWeek == 7
DaysPerMonth == 31
FirstWeekday == 6
FirstDayOfMonth == 31

num_days_from_monday(t) == (t + FirstWeekday) % DaysPerWeek
day_of_month(t) == ((t + FirstDayOfMonth - 1) % DaysPerMonth) + 1

today_start(t) == t
week_start(t) == today_start(t) - num_days_from_monday(t)
month_start(t) == t - (day_of_month(t) - 1)

\* Mutant: the day's counter is compared with the week's boundary and the
\* week's counter with the day's.
update_period_counters_SwapsBoundaries(analytics, scan_event, t) ==
    [analytics EXCEPT
       !.scans_today = IF scan_event.scanned_at >= week_start(t) THEN @ + 1 ELSE @,
       !.scans_this_week = IF scan_event.scanned_at >= today_start(t) THEN @ + 1 ELSE @,
       !.scans_this_month = IF scan_event.scanned_at >= month_start(t) THEN @ + 1 ELSE @]

\* update_property_analytics between its find_one and its replace_one
update_period_counters(analytics, scan_event, t) ==
    [analytics EXCEPT
       !.scans_today = IF scan_event.scanned_at >= today_start(t) THEN @ + 1 ELSE @,
       !.scans_this_week = IF scan_event.scanned_at >= week_start(t) THEN @ + 1 ELSE @,
       !.scans_this_month = IF scan_event.scanned_at >= month_start(t) THEN @ + 1 ELSE @]

\* Mutant: the write adds one scan to the stored document instead of
\* replacing it.
upsert_property_analytics_Increments(coll, doc) ==
    IF Matching(coll, doc.property_id) = {} THEN Append(coll, doc)
    ELSE [coll EXCEPT ![FirstMatch(coll, doc.property_id)] =
             [doc EXCEPT !.total_scans = coll[FirstMatch(coll, doc.property_id)].total_scans + 1]]

\* replace_one with upsert on {"propertyId": ...}
upsert_property_analytics(coll, doc) ==
    IF Matching(coll, doc.property_id) = {} THEN Append(coll, doc)
    ELSE [coll EXCEPT ![FirstMatch(coll, doc.property_id)] = doc]

\* find_one on {"propertyId": ...}
find_property_analytics(coll, property_id) ==
    IF Matching(coll, property_id) = {} THEN None
    ELSE Some(coll[FirstMatch(coll, property_id)])

(***************************************************************************)
(* services/analytics_service.rs                                           *)
(***************************************************************************)
TopLimit == 10
TopDays == 30

\* get_top_performing_properties: successful scans since `days` ago, grouped
\* by property.  The order of the list (by total scans, descending) is left
\* out: the model keeps the groups as a set, and never has more than `limit`.
get_top_performing_properties(events, limit, days, t) ==
    LET since == t - days
        hit(i) == events[i].scanned_at >= since /\ events[i].redirect_success
        ids == {events[i].property_id : i \in {j \in 1..Len(events) : hit(j)}}
        groups == {[property_id |-> p,
                    total_scans |-> Cardinality({i \in 1..Len(events) :
                                       hit(i) /\ events[i].property_id = p}),
                    success_rate |-> Frac(100, 1)] : p \in ids}
    IN IF Cardinality(groups) <= limit THEN groups
       ELSE CHOOSE g \in SUBSET groups :
               /\ Cardinality(g) = limit
               /\ \A a \in g, b \in groups \ g : a.total_scans >= b.total_scans

\* get_or_create_system_analytics: the document it inserts when none exists
SystemAnalytics_new(t) ==
    [total_scans_all_time |-> 0, total_scans_today |-> 0,
     top_performing_properties |-> {}, last_updated |-> t]

\* update_system_analytics, lines 449-468
recount_system_analytics(doc, events, t) ==
    [doc EXCEPT
       !.total_scans_all_time = Len(events),
       !.total_scans_today =
           Cardinality({i \in 1..Len(events) : events[i].scanned_at >= today_start(t)}),
       !.last_updated = t,
       !.top_performing_properties =
           get_top_performing_properties(events, TopLimit, TopDays, t)]

\* The tasks record_scan starts with tokio::spawn.
PropertyJob(scan_event) ==
    [kind |-> "property", event |-> scan_event, stage |-> "find", doc |-> None]
SystemJob(scan_event) ==
    [kind |-> "system", event |-> scan_event, stage |-> "find", doc |-> None]

\* record_scan: the event it builds
record_scan_event(k, property_id, qr_version, scan_source, redirect_type, user_agent, t) ==
    ScanEvent_new(k, property_id, qr_version, scan_source, redirect_type, user_agent, t)

\* record_failed_scan: the event it builds
record_failed_scan_event(k, property_id, qr_version, error_reason, user_agent, t) ==
    add_metadata(
        mark_failed(ScanEvent_new(k, property_id, qr_version, "QrCode", "Failed",
                                  user_agent, t)),
        "error_reason", error_reason)

(***************************************************************************)
(* handlers/scan_handler.rs                                                *)
(***************************************************************************)
daobitar_base_url == "https://dao"
blockchain_explorer_base_url == "https://scan"

\* scan_qr_code lines 79-86
scan_source_of(source) ==
    IF source = Some("qr") THEN "QrCode"
    ELSE IF source = Some("direct") THEN "DirectLink"
    ELSE IF source = Some("share") THEN "ShareLink"
    ELSE IF source = Some("search") THEN "SearchEngine"
    ELSE IF source = Some("social") THEN "SocialMedia"
    ELSE "QrCode"

\* scan_qr_code lines 107-117
redirect_type_of(redirect, property_info) ==
    IF redirect = Some("property") THEN "DaobitarOnly"
    ELSE IF redirect = Some("blockchain") THEN "BlockchainOnly"
    ELSE IF IsSome(property_info.onchain_id) THEN "DualRedirect"
    ELSE "DaobitarOnly"

\* create_error_page(message, property_id) served as HTML
ErrorPage(message, property_id) ==
    [kind |-> "error_page", message |-> message, property_id |-> property_id]

\* Mutant: without a recorded scan there is no redirect.
scan_response_NeedsScanId(redirect_type, property_id, property_info, scan_id) ==
    IF scan_id[1] = "fallback" THEN ErrorPage("Scan failed", property_id)
    ELSE [kind |-> "redirect",
          url |-> daobitar_base_url \o "/property/" \o property_id]

\* scan_qr_code lines 141-184
scan_response(redirect_type, property_id, property_info, scan_id) ==
    LET property_url == daobitar_base_url \o "/property/" \o property_id
        blockchain_url ==
            IF IsSome(property_info.onchain_id)
            THEN Some(blockchain_explorer_base_url \o "/token/"
                          \o Unwrap(property_info.onchain_id))
            ELSE None
    IN CASE redirect_type = "DaobitarOnly" ->
              [kind |-> "redirect", url |-> property_url]
         [] redirect_type = "BlockchainOnly" ->
              IF IsSome(blockchain_url)
              THEN [kind |-> "redirect", url |-> Unwrap(blockchain_url)]
              ELSE [kind |-> "redirect", url |-> property_url]
         [] redirect_type = "DualRedirect" ->
              [kind |-> "redirect_page",
               data |-> [property_id |-> property_id,
                         property_name |-> property_info.property_name,
                         location |-> Some(property_info.location),
                         daobitar_url |-> property_url,
                         blockchain_url |-> blockchain_url,
                         action |-> property_info.action,
                         price |-> property_info.price,
                         primary_image |-> IF Len(property_info.images) > 0
                                           THEN Some(property_info.images[1])
                                           ELSE None,
                         is_verified |-> unwrap_or(property_info.is_verified, FALSE),
                         crypto_accepted |-> property_info.crypto_accepted,
                         scan_id |-> scan_id]]
         [] OTHER -> ErrorPage("Scan failed", property_id)

\* increment_property_clicks: update_one with $inc on the property
increment_property_clicks(props, property_id) ==
    IF property_id \in DOMAIN props
    THEN [props EXCEPT ![property_id].clicks = @ + 1]
    ELSE props

MaxScans == 2

\* GET /scan/{property_id}: scan_qr_code up to and including the property
\* lookup (lines 66-117).  dbOk: whether the lookup's find_one is answered.
StartScan(t, property_id, source, redirect, user_agent, dbOk) ==
    /\ t \in tasks /\ pc[t] = "idle"
    /\ nscans < MaxScans
    /\ nscans' = nscans + 1
    /\ req' = [req EXCEPT ![t] = [op |-> "scan", property_id |-> property_id,
                                  source |-> source, redirect |-> redirect,
                                  user_agent |-> user_agent]]
    /\ LET r == get_property_qr_info(properties, property_id, dbOk) IN
       IF r.ok
       THEN /\ loc' = [loc EXCEPT ![t] =
                         [k |-> nscans + 1, found |-> TRUE,
                          scan_source |-> scan_source_of(source),
                          property_info |-> Some(r.value),
                          redirect_type |-> redirect_type_of(redirect, r.value),
                          scan_id |-> None, recorded |-> FALSE, clicked |-> FALSE]]
            /\ pc' = [pc EXCEPT ![t] = "scan_record"]
       ELSE /\ loc' = [loc EXCEPT ![t] =
                         [k |-> nscans + 1, found |-> FALSE,
                          scan_source |-> scan_source_of(source),
                          property_info |-> None,
                          redirect_type |-> "Failed",
                          scan_id |-> None, recorded |-> FALSE, clicked |-> FALSE]]
            /\ pc' = [pc EXCEPT ![t] = "scan_record_failed"]
    /\ UNCHANGED <<now, properties, tasks, res, genVars,
                   scan_events, property_analytics, system_analytics, bg>>

\* scan_qr_code lines 120-135: record_scan is awaited.  dbOk: whether its
\* insert_one succeeds; when it does not, a fresh ObjectId stands in.
ScanRecord(t, dbOk) ==
    /\ pc[t] = "scan_record"
    /\ LET e == record_scan_event(loc[t].k, req[t].property_id, 1,
                                  loc[t].scan_source, loc[t].redirect_type,
                                  req[t].user_agent, now) IN
       IF dbOk
       THEN /\ scan_events' = Append(scan_events, e)
            /\ bg' = bg \cup {PropertyJob(e), SystemJob(e)}
            /\ loc' = [loc EXCEPT ![t].scan_id = Some(e.id), ![t].recorded = TRUE]
       ELSE /\ loc' = [loc EXCEPT ![t].scan_id = Some(<<"fallback", loc[t].k>>)]
            /\ UNCHANGED <<scan_events, bg>>
    /\ pc' = [pc EXCEPT ![t] = "scan_clicks"]
    /\ UNCHANGED <<now, properties, tasks, req, res, genVars,
                   property_analytics, system_analytics, nscans>>

\* scan_qr_code lines 138-184: the click count, then the response.
ScanClicks(t, dbOk) ==
    /\ pc[t] = "scan_clicks"
    /\ IF dbOk
       THEN /\ properties' = increment_property_clicks(properties, req[t].property_id)
            /\ loc' = [loc EXCEPT ![t].clicked = TRUE]
       ELSE UNCHANGED <<properties, loc>>
    /\ res' = [res EXCEPT ![t] =
                 Ok(scan_response(loc[t].redirect_type, req[t].property_id,
                                  Unwrap(loc[t].property_info),
                                  Unwrap(loc[t].scan_id)))]
    /\ pc' = [pc EXCEPT ![t] = "done"]
    /\ UNCHANGED <<now, tasks, req, genVars, scanVars>>

\* scan_qr_code lines 91-103: record_failed_scan, its result dropped, then
\* the error page.
ScanRecordFailed(t, dbOk) ==
    /\ pc[t] = "scan_record_failed"
    /\ LET e == record_failed_scan_event(loc[t].k, req[t].property_id, 1,
                                         "Property not found",
                                         req[t].user_agent, now) IN
       IF dbOk
       THEN /\ scan_events' = Append(scan_events, e)
            /\ loc' = [loc EXCEPT ![t].scan_id = Some(e.id), ![t].recorded = TRUE]
       ELSE UNCHANGED <<scan_events, loc>>
    /\ res' = [res EXCEPT ![t] = Ok(ErrorPage("Property not found", req[t].property_id))]
    /\ pc' = [pc EXCEPT ![t] = "done"]
    /\ UNCHANGED <<now, properties, tasks, req, genVars,
                   property_analytics, system_analytics, bg, nscans>>

\* update_property_analytics lines 397-431: find_one, then the new totals.
BgPropertyFind(j, dbOk) ==
    /\ j \in bg /\ j.kind = "property" /\ j.stage = "find"
    /\ IF dbOk
       THEN LET found == find_property_analytics(property_analytics, j.event.property_id)
                start == IF IsSome(found) THEN Unwrap(found)
                         ELSE PropertyScanAnalytics_new(j.event.property_id, now)
                next == update_period_counters(
                            update_with_scan(start, j.event, now), j.event, now)
            IN bg' = (bg \ {j}) \cup {[j EXCEPT !.stage = "write", !.doc = Some(next)]}
       ELSE bg' = bg \ {j}
    /\ UNCHANGED <<now, properties, tasks, pc, req, loc, res, genVars,
                   scan_events, property_analytics, system_analytics, nscans>>

\* update_property_analytics lines 434-441: replace_one with upsert.
BgPropertyWrite(j, dbOk) ==
    /\ j \in bg /\ j.kind = "property" /\ j.stage = "write"
    /\ property_analytics' =
           IF dbOk THEN upsert_property_analytics(property_analytics, Unwrap(j.doc))
           ELSE property_analytics
    /\ bg' = bg \ {j}
    /\ UNCHANGED <<now, properties, tasks, pc, req, loc, res, genVars,
                   scan_events, system_analytics, nscans>>

SystemFaults == {"none", "find", "count"}

\* update_system_analytics lines 446-468: get_or_create_system_analytics,
\* then the counts and the leaderboard.  fault names the database call that
\* fails: after "find" nothing is written; after "count" the document that
\* get_or_create_system_analytics inserted stays as it was inserted.
BgSystemRead(j, fault) ==
    /\ j \in bg /\ j.kind = "system" /\ j.stage = "find"
    /\ LET start == IF IsSome(system_analytics) THEN Unwrap(system_analytics)
                    ELSE SystemAnalytics_new(now) IN
       /\ system_analytics' = IF fault = "find" THEN system_analytics ELSE Some(start)
       /\ bg' = IF fault = "none"
                THEN (bg \ {j}) \cup
                     {[j EXCEPT !.stage = "write",
                                !.doc = Some(recount_system_analytics(start, scan_events, now))]}
                ELSE bg \ {j}
    /\ UNCHANGED <<now, properties, tasks, pc, req, loc, res, genVars,
                   scan_events, property_analytics, nscans>>

\* update_system_analytics lines 470-476: replace_one with upsert.
BgSystemWrite(j, dbOk) ==
    /\ j \in bg /\ j.kind = "system" /\ j.stage = "write"
    /\ system_analytics' = IF dbOk THEN j.doc ELSE system_analytics
    /\ bg' = bg \ {j}
    /\ UNCHANGED <<now, properties, tasks, pc, req, loc, res, genVars,
                   scan_events, property_analytics, nscans>>

(***************************************************************************)
(* Specifications.  Spec serves one request at a time; SpecConc serves two *)
(* requests concurrently.                                                  *)
(***************************************************************************)
InitWith(slots, ids) ==
    /\ now = 0
    /\ properties = [p \in ids |-> AllProperties[p]]
    /\ qr_metadata = <<>>
    /\ s3_objects = {}
    /\ tasks = slots
    /\ pc = [t \in Tasks |-> "idle"]
    /\ req = [t \in Tasks |-> NoReq]
    /\ loc = [t \in Tasks |-> IdleLoc]
    /\ res = [t \in Tasks |-> NoRes]
    /\ scan_events = <<>>
    /\ property_analytics = <<>>
    /\ system_analytics = <<>>
    /\ bg = {}
    /\ nscans = 0

Init == InitWith({1}, {"p1", "p2", "p5"})

InitConc == InitWith(Tasks, {"p1", "p2"})

GenIds == {"p1", "p2", "p5", "ghost", "bad"}

GenFaults == {"none", "lookup_db", "json", "encode", "upload"}

Next ==
    \/ \E t \in Tasks, id \in GenIds, f \in BOOLEAN :
          StartGenerate(t, id, f, IF f THEN "ManualRegeneration" ELSE "NewProperty")
    \/ \E t \in Tasks, ids \in IdLists, f \in BOOLEAN :
          StartBatch(t, ids, f, "BatchGeneration")
    \/ \E t \in Tasks, ids \in IdLists, f \in BOOLEAN :
          PostGenerateBatch(t, ids, f, "BatchGeneration")
    \/ \E t \in Tasks, qrOk \in BOOLEAN, propsOk \in BOOLEAN :
          GenerateMissing(t, qrOk, propsOk)
    \/ \E t \in Tasks, e \in ExpiryDays, dbOk \in BOOLEAN :
          NeedingRegeneration(t, e, dbOk)
    \/ \E t \in Tasks, dbOk \in BOOLEAN : GenCheck(t, dbOk)
    \/ \E t \in Tasks, fault \in GenFaults : GenBuild(t, fault)
    \/ \E t \in Tasks, dbOk \in BOOLEAN : GenReread(t, dbOk)
    \/ \E t \in Tasks, dbOk \in BOOLEAN : GenUpsert(t, dbOk)
    \/ \E t \in Tasks, id \in GenIds, dbOk \in BOOLEAN : Deactivate(t, id, dbOk)
    \/ \E t \in Tasks, id \in GenIds, dbOk \in BOOLEAN, s3Ok \in BOOLEAN :
          DeleteImage(t, id, dbOk, s3Ok)
    \/ \E t \in Tasks, dbOk \in BOOLEAN : DeleteRecord(t, dbOk)
    \/ \E t \in Tasks : Return(t)
    \/ Tick

Spec == Init /\ [][Next]_vars

\* Two concurrent requests about the same property.
ConcIds == {"p1"}
ConcIdLists == UNION {[1..n -> {"p1"}] : n \in 1..MaxConcBatch}

ConcFaults == {"none", "upload"}

NextConc ==
    \/ \E t \in Tasks, id \in ConcIds, f \in BOOLEAN :
          StartGenerate(t, id, f, IF f THEN "ManualRegeneration" ELSE "NewProperty")
    \/ \E t \in Tasks, ids \in ConcIdLists, f \in BOOLEAN :
          StartBatch(t, ids, f, "BatchGeneration")
    \/ \E t \in Tasks, dbOk \in BOOLEAN : GenCheck(t, dbOk)
    \/ \E t \in Tasks, fault \in ConcFaults : GenBuild(t, fault)
    \/ \E t \in Tasks, dbOk \in BOOLEAN : GenReread(t, dbOk)
    \/ \E t \in Tasks, dbOk \in BOOLEAN : GenUpsert(t, dbOk)
    \/ \E t \in Tasks, id \in ConcIds, dbOk \in BOOLEAN : Deactivate(t, id, dbOk)
    \/ \E t \in Tasks, id \in ConcIds, dbOk \in BOOLEAN, s3Ok \in BOOLEAN :
          DeleteImage(t, id, dbOk, s3Ok)
    \/ \E t \in Tasks, dbOk \in BOOLEAN : DeleteRecord(t, dbOk)
    \/ \E t \in Tasks : Return(t)

SpecConc == InitConc /\ [][NextConc]_vars

\* One scan and the tasks it spawns, over every kind of property and hint.
InitScan == InitWith({1}, {"p1", "p2", "p3", "p4"})

ScanIds == {"p1", "p2", "p3", "p4", "ghost", "bad"}
RedirectHints == {None, Some("property"), Some("blockchain"), Some("dual"), Some("other")}
\* <<source, user agent>> of a request
ScanHeaders == {<<None, None>>, <<Some("share"), Some("iPad Mobile Safari")>>}

NextScan ==
    \/ \E t \in Tasks, id \in ScanIds, redirect \in RedirectHints,
          h \in ScanHeaders, dbOk \in BOOLEAN :
          StartScan(t, id, h[1], redirect, h[2], dbOk)
    \/ \E t \in Tasks, dbOk \in BOOLEAN : ScanRecord(t, dbOk)
    \/ \E t \in Tasks, dbOk \in BOOLEAN : ScanClicks(t, dbOk)
    \/ \E t \in Tasks, dbOk \in BOOLEAN : ScanRecordFailed(t, dbOk)
    \/ \E j \in bg, dbOk \in BOOLEAN : BgPropertyFind(j, dbOk)
    \/ \E j \in bg, dbOk \in BOOLEAN : BgPropertyWrite(j, dbOk)
    \/ \E j \in bg, fault \in SystemFaults : BgSystemRead(j, fault)
    \/ \E j \in bg, dbOk \in BOOLEAN : BgSystemWrite(j, dbOk)

SpecScan == InitScan /\ [][NextScan]_vars

\* Two scans served concurrently.
InitScanPair == InitWith(Tasks, {"p1", "p3"})

PairIds == {"p1", "p3", "ghost"}
PairHints == {None, Some("blockchain")}

NextScanPair ==
    \/ \E t \in Tasks, id \in PairIds, redirect \in PairHints, dbOk \in BOOLEAN :
          StartScan(t, id, None, redirect, Some("Android"), dbOk)
    \/ \E t \in Tasks, dbOk \in BOOLEAN : ScanRecord(t, dbOk)
    \/ \E t \in Tasks, dbOk \in BOOLEAN : ScanClicks(t, dbOk)
    \/ \E t \in Tasks, dbOk \in BOOLEAN : ScanRecordFailed(t, dbOk)
    \/ \E j \in bg, dbOk \in BOOLEAN : BgPropertyFind(j, dbOk)
    \/ \E j \in bg, dbOk \in BOOLEAN : BgPropertyWrite(j, dbOk)
    \/ \E j \in bg, fault \in SystemFaults : BgSystemRead(j, fault)
    \/ \E j \in bg, dbOk \in BOOLEAN : BgSystemWrite(j, dbOk)

SpecScanPair == InitScanPair /\ [][NextScanPair]_vars

\* get_property_qr_info(property_id) is called and returns.
GetPropertyQrInfo(t, property_id, dbOk) ==
    /\ t \in tasks /\ pc[t] = "idle"
    /\ req' = [req EXCEPT ![t] = [op |-> "qr_info", property_id |-> property_id]]
    /\ res' = [res EXCEPT ![t] = get_property_qr_info(properties, property_id, dbOk)]
    /\ pc' = [pc EXCEPT ![t] = "done"]
    /\ UNCHANGED <<now, properties, tasks, loc, genVars, scanVars>>

\* The eligibility of one property, over every combination of its fields.
ImageLists == UNION {[1..n -> {"img1"}] : n \in 0..MaxImages}

SomeProperties ==
    [property_name : {"Villa"}, location : {"Nairobi"},
     action : {"for sale", "for rent"}, price : (-1)..MaxPrice,
     images : ImageLists, removed : {None, Some(FALSE), Some(TRUE)},
     onchain_id : {None, Some("0xabc")}, crypto_accepted : BOOLEAN,
     is_verified : {None, Some(TRUE)}, clicks : {0}]

InitElig ==
    /\ now = 0
    /\ \E p \in SomeProperties : properties = [id \in {"p1"} |-> p]
    /\ qr_metadata = <<>>
    /\ s3_objects = {}
    /\ tasks = {1}
    /\ pc = [t \in Tasks |-> "idle"]
    /\ req = [t \in Tasks |-> NoReq]
    /\ loc = [t \in Tasks |-> IdleLoc]
    /\ res = [t \in Tasks |-> NoRes]
    /\ scan_events = <<>>
    /\ property_analytics = <<>>
    /\ system_analytics = <<>>
    /\ bg = {}
    /\ nscans = 0

NextElig ==
    \E t \in Tasks, id \in {"p1", "ghost"}, dbOk \in BOOLEAN :
        GetPropertyQrInfo(t, id, dbOk)

SpecElig == InitElig /\ [][NextElig]_vars

\* update_with_scan applied to a fresh aggregate, once for each event of a
\* sequence; an event is a recorded scan, marked failed or not.
EventLists ==
    UNION {[1..n -> {ScanEvent_new(0, "p1", 1, "QrCode", "DaobitarOnly", None, 0),
                     mark_failed(ScanEvent_new(0, "p1", 1, "QrCode", "Failed", None, 0))}]
              : n \in 0..MaxEvents}

InitRate ==
    /\ now = 0
    /\ properties = [p \in {"p1"} |-> AllProperties[p]]
    /\ qr_metadata = <<>>
    /\ s3_objects = {}
    /\ tasks = {}
    /\ pc = [t \in Tasks |-> "idle"]
    /\ req = [t \in Tasks |-> NoReq]
    /\ loc = [t \in Tasks |-> IdleLoc]
    /\ res = [t \in Tasks |-> NoRes]
    /\ scan_events \in EventLists
    /\ property_analytics = <<PropertyScanAnalytics_new("p1", 0)>>
    /\ system_analytics = <<>>
    /\ bg = {}
    /\ nscans = 0

\* The next event of the sequence is applied to the aggregate.
ApplyScan ==
    /\ nscans < Len(scan_events)
    /\ property_analytics' =
           <<update_with_scan(property_analytics[1], scan_events[nscans + 1], now)>>
    /\ nscans' = nscans + 1
    /\ UNCHANGED <<now, properties, tasks, pc, req, loc, res, genVars,
                   scan_events, system_analytics, bg>>

NextRate == ApplyScan

SpecRate == InitRate /\ [][NextRate]_vars

\* Two regenerations of the same record, served concurrently: the record of
\* p1 is as its first generation left it.
RaceId == "p1"

FirstRecord(id, t) ==
    QrCodeMetadata_new(id, to_json_string(QrCodeData_new(id, base_url, t)),
                       get_public_url(get_s3_key(id)),
                       QrMetadata(to_qr_info(id, AllProperties[id]), "NewProperty"), t)

InitRace ==
    /\ now = 0
    /\ properties = [p \in {RaceId} |-> AllProperties[p]]
    /\ qr_metadata = <<FirstRecord(RaceId, 0)>>
    /\ s3_objects = {get_s3_key(RaceId)}
    /\ tasks = Tasks
    /\ pc = [t \in Tasks |-> "idle"]
    /\ req = [t \in Tasks |-> NoReq]
    /\ loc = [t \in Tasks |-> IdleLoc]
    /\ res = [t \in Tasks |-> NoRes]
    /\ scan_events = <<>>
    /\ property_analytics = <<>>
    /\ system_analytics = <<>>
    /\ bg = {}
    /\ nscans = 0

NextRace ==
    \/ \E t \in Tasks : StartGenerate(t, RaceId, TRUE, "ManualRegeneration")
    \/ \E t \in Tasks, dbOk \in BOOLEAN : GenCheck(t, dbOk)
    \/ \E t \in Tasks, fault \in GenFaults : GenBuild(t, fault)
    \/ \E t \in Tasks, dbOk \in BOOLEAN : GenReread(t, dbOk)
    \/ \E t \in Tasks, dbOk \in BOOLEAN : GenUpsert(t, dbOk)
    \/ Tick

SpecRace == InitRace /\ [][NextRace]_vars

\* Scans of one property recorded one after another, their aggregate
\* updates running in the background, over a change of day, week and month:
\* the first day is a Saturday, the 30th.  The system-wide update spawned
\* with each scan ends at its first find here, leaving the system aggregate
\* (which no per-property update reads) out of the interleavings.
MaxUpdates == 3
CounterId == "p1"
CounterOutcomes == {"PropertyPage"}

InitCounters ==
    /\ now = -1
    /\ properties = [p \in {CounterId} |-> AllProperties[p]]
    /\ qr_metadata = <<>>
    /\ s3_objects = {}
    /\ tasks = {1}
    /\ pc = [t \in Tasks |-> "idle"]
    /\ req = [t \in Tasks |-> NoReq]
    /\ loc = [t \in Tasks |-> IdleLoc]
    /\ res = [t \in Tasks |-> NoRes]
    /\ scan_events = <<>>
    /\ property_analytics = <<>>
    /\ system_analytics = <<>>
    /\ bg = {}
    /\ nscans = 0

\* AnalyticsService::record_scan (lines 43-112): the event is inserted, then
\* the two updates are spawned.  dbOk: whether insert_one succeeds; when it
\* does not the call returns the error and spawns nothing.
RecordScan(redirect_type, dbOk) ==
    /\ nscans < MaxUpdates
    /\ nscans' = nscans + 1
    /\ LET e == record_scan_event(nscans + 1, CounterId, 1, "QrCode",
                                  redirect_type, None, now) IN
       IF dbOk
       THEN /\ scan_events' = Append(scan_events, e)
            /\ bg' = bg \cup {PropertyJob(e), SystemJob(e)}
       ELSE UNCHANGED <<scan_events, bg>>
    /\ UNCHANGED <<now, properties, tasks, pc, req, loc, res, genVars,
                   property_analytics, system_analytics>>

NextCounters ==
    \/ \E redirect_type \in CounterOutcomes, dbOk \in BOOLEAN :
          RecordScan(redirect_type, dbOk)
    \/ \E j \in bg, dbOk \in BOOLEAN : BgPropertyFind(j, dbOk)
    \/ \E j \in bg, dbOk \in BOOLEAN : BgPropertyWrite(j, dbOk)
    \/ \E j \in bg : BgSystemRead(j, "find")
    \/ Tick

SpecCounters == InitCounters /\ [][NextCounters]_vars

\* Scans of a property that has stopped being eligible since its QR code
\* was generated (p3: removed, its images gone, or its price at or below 0),
\* with or without its active record, next to an eligible property.
IneligibleId == "p3"
Ineligibles ==
    {[AllProperties[IneligibleId] EXCEPT !.removed = Some(TRUE)],
     [AllProperties[IneligibleId] EXCEPT !.images = <<>>],
     [AllProperties[IneligibleId] EXCEPT !.price = 0],
     [AllProperties[IneligibleId] EXCEPT !.price = -1]}

InitIneligible ==
    /\ now = 0
    /\ \E q \in Ineligibles :
          properties = [p \in {"p1", IneligibleId} |->
                           IF p = IneligibleId THEN q ELSE AllProperties[p]]
    /\ qr_metadata \in {<<>>, <<FirstRecord(IneligibleId, 0)>>}
    /\ s3_objects = {get_s3_key(qr_metadata[i].property_id) : i \in 1..Len(qr_metadata)}
    /\ tasks = {1}
    /\ pc = [t \in Tasks |-> "idle"]
    /\ req = [t \in Tasks |-> NoReq]
    /\ loc = [t \in Tasks |-> IdleLoc]
    /\ res = [t \in Tasks |-> NoRes]
    /\ scan_events = <<>>
    /\ property_analytics = <<>>
    /\ system_analytics = <<>>
    /\ bg = {}
    /\ nscans = 0

NextIneligible ==
    \/ \E t \in Tasks, id \in {"p1", IneligibleId}, redirect \in PairHints,
          h \in ScanHeaders, dbOk \in BOOLEAN :
          StartScan(t, id, h[1], redirect, h[2], dbOk)
    \/ \E t \in Tasks, dbOk \in BOOLEAN : ScanRecord(t, dbOk)
    \/ \E t \in Tasks, dbOk \in BOOLEAN : ScanClicks(t, dbOk)
    \/ \E t \in Tasks, dbOk \in BOOLEAN : ScanRecordFailed(t, dbOk)
    \/ \E j \in bg, dbOk \in BOOLEAN : BgPropertyFind(j, dbOk)
    \/ \E j \in bg, dbOk \in BOOLEAN : BgPropertyWrite(j, dbOk)
    \/ \E j \in bg, fault \in SystemFaults : BgSystemRead(j, fault)
    \/ \E j \in bg, dbOk \in BOOLEAN : BgSystemWrite(j, dbOk)

SpecIneligible == InitIneligible /\ [][NextIneligible]_vars

(***************************************************************************)
(* Properties of the generator.                                            *)
(***************************************************************************)

C4_Lifecycle ==
    [][\A t \in Tasks :
        LET id == req[t].ids[1]
            before == get_existing_qr(qr_metadata, id, TRUE)
            after == get_existing_qr(qr_metadata', id, TRUE)
            first == /\ pc[t] \in {"gen_build", "gen_upsert"} /\ req[t].op = "generate"
                     /\ ~req[t].force_regenerate /\ ~before.ok
                     /\ id \in DOMAIN properties /\ is_qr_eligible(properties[id])
                     /\ pc'[t] = "done"
            second == /\ pc[t] = "gen_check" /\ req[t].op = "generate"
                      /\ ~req[t].force_regenerate
                      /\ before.ok /\ before.value.is_active
                      /\ before.value.qr_version = 1
                      /\ pc'[t] = "done"
            third == /\ pc[t] = "gen_upsert" /\ req[t].op = "generate"
                     /\ req[t].force_regenerate
                     /\ before.ok /\ before.value.qr_version = 1
                     /\ loc[t].calls.read_failed = 0
                     /\ pc'[t] = "done" /\ res'[t].ok
        IN /\ first => IF res'[t].ok
                       THEN /\ res'[t].value.status = "Generated"
                            /\ after.ok /\ after.value.qr_version = 1
                            /\ after.value.is_active
                            /\ after.value.qr_code_url = res'[t].value.qr_code_url
                       ELSE res'[t].error \in {"DatabaseError", "QrGenerationFailed",
                                               "S3UploadFailed"}
           /\ second => /\ res'[t].ok /\ res'[t].value.status = "Exists"
                        /\ res'[t].value.qr_code_url = before.value.qr_code_url
                        /\ after = before
           /\ third => /\ res'[t].value.status = "Regenerated"
                       /\ after.ok /\ after.value.qr_version = 2]_vars

\* C4, witness: the last call of the scenario has answered: the record of an
\* eligible property, first generated as a new property, stands at version 2
\* after a regeneration.
C4_Witness ==
    \E t \in Tasks :
        LET r == get_existing_qr(qr_metadata, "p1", TRUE) IN
        /\ pc[t] = "done" /\ req[t].op = "generate" /\ req[t].ids = <<"p1">>
        /\ req[t].force_regenerate /\ res[t].ok
        /\ res[t].value.status = "Regenerated"
        /\ r.ok /\ r.value.qr_version = 2
        /\ r.value.metadata.generation_reason = "ManualRegeneration"
        /\ r.value.generated_at < r.value.last_updated

\* C5: a generate_qr_code call changes the record store in its last step
\* only, the upsert, and only when it succeeds; a call that returns an error
\* has made no call twice and, unless the error is the upsert's own, has not
\* reached the upsert; a call that succeeds has either taken the fast path
\* or made each call exactly once.
C5_FailureAtomicity ==
    [][\A t \in Tasks :
        /\ (/\ req[t].op = "generate"
            /\ pc[t] \in {"gen_check", "gen_build", "gen_reread", "gen_upsert"}
            /\ qr_metadata' # qr_metadata)
           => (pc[t] = "gen_upsert" /\ pc'[t] = "done" /\ res'[t].ok)
        /\ (pc'[t] = "done" /\ req'[t].op = "generate" /\ ~res'[t].ok)
           => (/\ qr_metadata' = qr_metadata
               /\ loc'[t].calls.lookup <= 1 /\ loc'[t].calls.encode <= 1
               /\ loc'[t].calls.upload <= 1 /\ loc'[t].calls.upsert <= 1
               /\ res'[t].error # "DatabaseError" => loc'[t].calls.upsert = 0
               /\ res'[t].error \in {"PropertyNotFound", "InvalidPropertyId",
                                     "PropertyNotEligible"}
                  => /\ loc'[t].calls.encode = 0 /\ loc'[t].calls.upload = 0
                     /\ s3_objects' = s3_objects)
        /\ (pc'[t] = "done" /\ req'[t].op = "generate" /\ res'[t].ok /\ pc[t] # "done")
           => \/ res'[t].value.status = "Exists" /\ loc'[t].calls = ZeroCalls
              \/ /\ res'[t].value.status \in {"Generated", "Regenerated"}
                 /\ loc'[t].calls.lookup = 1 /\ loc'[t].calls.encode = 1
                 /\ loc'[t].calls.upload = 1 /\ loc'[t].calls.upsert = 1]_vars

\* C5, witness: a call on a property that has a record has failed at the
\* upload, the record still there.
C5_Witness ==
    \E t \in Tasks :
        /\ pc[t] = "done" /\ req[t].op = "generate"
        /\ ~res[t].ok /\ res[t].error = "S3UploadFailed"
        /\ loc[t].calls.upload = 1 /\ loc[t].calls.upsert = 0
        /\ Len(qr_metadata) = 1

\* C6 as stated: a generate_qr_code call without force for a property
\* without images and without a record, its lookup answered, fails with
\* PropertyNotEligible and a reason that names the images, and stores nothing.
C6_AsStated ==
    [][\A t \in Tasks :
        LET id == req[t].ids[1] IN
        (/\ pc[t] = "gen_build" /\ req[t].op = "generate"
         /\ ~req[t].force_regenerate
         /\ id \in DOMAIN properties /\ Len(properties[id].images) = 0
         /\ Matching(qr_metadata, id) = {}
         /\ pc'[t] # "gen_build")
        => (/\ pc'[t] = "done" /\ ~res'[t].ok
            /\ \/ res'[t].error = "DatabaseError"
               \/ /\ res'[t].error = "PropertyNotEligible"
                  /\ Contains(res'[t].reason, "no images")
            /\ Matching(qr_metadata', id) = {})]_vars

\* C6: the same for a property without images that is not marked removed.
C6_IneligibleNoImages ==
    [][\A t \in Tasks :
        LET id == req[t].ids[1] IN
        (/\ pc[t] = "gen_build" /\ req[t].op = "generate"
         /\ ~req[t].force_regenerate
         /\ id \in DOMAIN properties /\ Len(properties[id].images) = 0
         /\ ~unwrap_or(properties[id].removed, FALSE)
         /\ Matching(qr_metadata, id) = {}
         /\ pc'[t] # "gen_build")
        => (/\ pc'[t] = "done" /\ ~res'[t].ok
            /\ \/ res'[t].error = "DatabaseError"
               \/ /\ res'[t].error = "PropertyNotEligible"
                  /\ Contains(res'[t].reason, "no images")
            /\ Matching(qr_metadata', id) = {})]_vars

\* C6, witness: the call for the property without images has been refused.
C6_Witness ==
    \E t \in Tasks :
        /\ pc[t] = "done" /\ req[t].op = "generate" /\ req[t].ids = <<"p2">>
        /\ ~req[t].force_regenerate
        /\ ~res[t].ok /\ res[t].error = "PropertyNotEligible"
        /\ res[t].reason = "Property has no images"
        /\ Matching(qr_metadata, "p2") = {}

C8_RedirectClassification ==
    \A t \in Tasks :
        (pc[t] = "done" /\ req[t].op = "scan" /\ loc[t].found)
        => LET id == req[t].property_id
               hint == req[t].redirect
               onchain_id == Unwrap(loc[t].property_info).onchain_id
               r == res[t].value
               to_property == [kind |-> "redirect",
                               url |-> daobitar_base_url \o "/property/" \o id]
               to_explorer == [kind |-> "redirect",
                               url |-> blockchain_explorer_base_url \o "/token/"
                                          \o Unwrap(onchain_id)]
           IN /\ res[t].ok
              /\ hint = Some("property") => r = to_property
              /\ hint = Some("blockchain")
                 => r = IF IsSome(onchain_id) THEN to_explorer ELSE to_property
              /\ hint \notin {Some("property"), Some("blockchain")}
                 => IF IsSome(onchain_id) /\ Unwrap(onchain_id) # ""
                    THEN r.kind = "redirect_page"
                    ELSE r = to_property
              /\ (IsSome(onchain_id) /\ r = to_explorer) => hint = Some("blockchain")

\* C8 for the properties whose on-chain id is absent or not empty.
C8_RedirectClassificationNonEmpty ==
    \A t \in Tasks :
        (/\ pc[t] = "done" /\ req[t].op = "scan" /\ loc[t].found
         /\ Unwrap(loc[t].property_info).onchain_id # Some(""))
        => LET id == req[t].property_id
               hint == req[t].redirect
               onchain_id == Unwrap(loc[t].property_info).onchain_id
               r == res[t].value
               to_property == [kind |-> "redirect",
                               url |-> daobitar_base_url \o "/property/" \o id]
               to_explorer == [kind |-> "redirect",
                               url |-> blockchain_explorer_base_url \o "/token/"
                                          \o Unwrap(onchain_id)]
           IN /\ res[t].ok
              /\ hint = Some("property") => r = to_property
              /\ hint = Some("blockchain")
                 => r = IF IsSome(onchain_id) THEN to_explorer ELSE to_property
              /\ hint \notin {Some("property"), Some("blockchain")}
                 => IF IsSome(onchain_id)
                    THEN /\ r.kind = "redirect_page"
                         /\ r.data.daobitar_url = to_property.url
                         /\ r.data.blockchain_url = Some(to_explorer.url)
                    ELSE r = to_property
              /\ (IsSome(onchain_id) /\ r = to_explorer) => hint = Some("blockchain")

\* C9: a scan whose property lookup fails (the id is malformed, no
\* property has it, the property is not eligible, or the database does not
\* answer) is answered with the error page, never with an error, and its one
\* attempt to record the scan, when the event store accepts it, adds one
\* event for that property id with redirect_type Failed, redirect_success
\* false and an error_reason entry; no scan ends with an error.
C9_UnknownPropertyScan ==
    [][\A t \in Tasks :
        /\ (/\ pc[t] = "idle" /\ req'[t].op = "scan"
            /\ ~get_property_qr_info(properties, req'[t].property_id, TRUE).ok)
           => pc'[t] = "scan_record_failed"
        /\ (pc[t] = "scan_record_failed" /\ pc'[t] # "scan_record_failed")
           => (/\ pc'[t] = "done"
               /\ res'[t] = Ok(ErrorPage("Property not found", req[t].property_id))
               /\ bg' = bg
               /\ IF loc'[t].recorded
                  THEN /\ Len(scan_events') = Len(scan_events) + 1
                       /\ SubSeq(scan_events', 1, Len(scan_events)) = scan_events
                       /\ LET e == scan_events'[Len(scan_events')] IN
                          /\ e.property_id = req[t].property_id
                          /\ e.redirect_type = "Failed"
                          /\ ~e.redirect_success
                          /\ \E m \in e.metadata :
                                m.key = "error_reason" /\ m.value = "Property not found"
                  ELSE scan_events' = scan_events)
        /\ (req'[t].op = "scan" /\ pc'[t] = "done") => res'[t].ok]_vars

\* C9, witness: the scan of an id no property has is answered with the
\* error page and its Failed event is stored.
C9_Witness ==
    \E t \in Tasks :
        /\ pc[t] = "done" /\ req[t].op = "scan" /\ req[t].property_id = "ghost"
        /\ res[t].ok /\ res[t].value.kind = "error_page"
        /\ loc[t].recorded
        /\ Len(scan_events) = 1
        /\ scan_events[1].property_id = "ghost"
        /\ scan_events[1].redirect_type = "Failed"

\* C10: two scans with the same request, of a property in the same state,
\* are answered alike (the same page or redirect, the same URLs, the scan
\* id apart), whichever of their analytics calls failed; neither is
\* answered with an error.
C10_AnalyticsNeverChangeOutcome ==
    \A t1 \in Tasks, t2 \in Tasks :
        LET Decision(r) ==
                IF r.value.kind = "redirect_page"
                THEN [r.value EXCEPT !.data.scan_id = <<>>]
                ELSE r.value
        IN (/\ pc[t1] = "done" /\ pc[t2] = "done"
            /\ req[t1].op = "scan" /\ req[t2] = req[t1]
            /\ loc[t1].property_info = loc[t2].property_info)
           => (/\ res[t1].ok /\ res[t2].ok
               /\ Decision(res[t1]) = Decision(res[t2]))

\* C10, witness: of two scans of the same property with the same request,
\* one had its event stored and its click counted, the other neither; both
\* were shown the landing page.
C10_Witness ==
    /\ pc[1] = "done" /\ pc[2] = "done"
    /\ req[1].op = "scan" /\ req[2] = req[1]
    /\ loc[1].found /\ loc[2].found
    /\ loc[1].recorded /\ loc[1].clicked
    /\ ~loc[2].recorded /\ ~loc[2].clicked
    /\ res[1].ok /\ res[1].value.kind = "redirect_page"
    /\ res[2].ok /\ res[2].value.kind = "redirect_page"
    /\ bg = {}

(***************************************************************************)
(* Properties of the scan path and of the batch.                           *)
(***************************************************************************)

\* C11: storing the ScanEvent and counting the click are background work:
\* no step of the scan handler itself, which the response waits for, adds
\* to scan_events or changes a property's click count.
C11_RecordingIsBackgroundWork ==
    [][\A t \in Tasks :
        (pc[t] \in {"scan_record", "scan_clicks"} /\ pc'[t] # pc[t])
        => (scan_events' = scan_events /\ properties' = properties)]_vars

\* C12: batch_generate_qr_codes calls generate_qr_code for the ids of its
\* list one after another, from the first to the last, whatever the earlier
\* calls returned; each call's outcome adds one entry, carrying that id, to
\* exactly one of the lists successful and failed (a failed entry has an
\* error message and an error code); the answer has total_requested equal
\* to the length of the list, the totals equal to the lengths of the two
\* lists and adding up to total_requested, and the two lists share out the
\* positions of the input list, each in input order.
C12_BatchAttribution ==
    [][\A t \in Tasks :
        (/\ req[t].op = "batch"
         /\ pc[t] \in {"gen_check", "gen_build", "gen_reread", "gen_upsert"})
        => LET ids == req[t].ids
               n == Len(ids)
               OneMore(successful, failed) ==
                   \/ /\ failed = loc[t].failed
                      /\ Len(successful) = Len(loc[t].successful) + 1
                      /\ SubSeq(successful, 1, Len(loc[t].successful)) = loc[t].successful
                      /\ successful[Len(successful)].property_id = CurId(t)
                   \/ /\ successful = loc[t].successful
                      /\ Len(failed) = Len(loc[t].failed) + 1
                      /\ SubSeq(failed, 1, Len(loc[t].failed)) = loc[t].failed
                      /\ failed[Len(failed)].property_id = CurId(t)
                      /\ failed[Len(failed)].error # ""
                      /\ failed[Len(failed)].error_code # ""
               Pick(S) ==
                   LET F[k \in 0..n] ==
                           IF k = 0 THEN <<>>
                           ELSE IF k \in S THEN Append(F[k - 1], ids[k]) ELSE F[k - 1]
                   IN F[n]
               IdsOf(list) == [k \in 1..Len(list) |-> list[k].property_id]
           IN /\ loc[t].i \in 1..n
              /\ Len(loc[t].successful) + Len(loc[t].failed) = loc[t].i - 1
              /\ IF pc'[t] = "done"
                 THEN /\ loc[t].i = n
                      /\ res'[t].ok
                      /\ LET b == IF req[t].http THEN res'[t].value.data
                                  ELSE res'[t].value IN
                         /\ OneMore(b.successful, b.failed)
                         /\ b.total_requested = n
                         /\ b.total_successful = Len(b.successful)
                         /\ b.total_failed = Len(b.failed)
                         /\ b.total_successful + b.total_failed = b.total_requested
                         /\ \E S \in SUBSET (1..n) :
                               /\ IdsOf(b.successful) = Pick(S)
                               /\ IdsOf(b.failed) = Pick((1..n) \ S)
                 ELSE IF pc'[t] = "gen_check" /\ loc'[t].i # loc[t].i
                 THEN /\ loc'[t].i = loc[t].i + 1
                      /\ OneMore(loc'[t].successful, loc'[t].failed)
                 ELSE /\ loc'[t].i = loc[t].i
                      /\ loc'[t].successful = loc[t].successful
                      /\ loc'[t].failed = loc[t].failed]_vars

\* C12, witness: a batch whose first id failed (the property has no images)
\* and whose second id was generated all the same.
C12_Witness ==
    \E t \in Tasks :
        /\ pc[t] = "done" /\ req[t].op = "batch" /\ ~req[t].http
        /\ req[t].ids = <<"p2", "p1">>
        /\ res[t].ok
        /\ Len(res[t].value.failed) = 1
        /\ res[t].value.failed[1].property_id = "p2"
        /\ res[t].value.failed[1].error_code = "PROPERTY_NOT_ELIGIBLE"
        /\ Len(res[t].value.successful) = 1
        /\ res[t].value.successful[1].property_id = "p1"
        /\ res[t].value.total_requested = 2

\* C13: a batch over the empty list of property ids is answered without an
\* error: total_requested, total_successful and total_failed are 0 and both
\* lists are empty.
C13_EmptyBatchValid ==
    \A t \in Tasks :
        (pc[t] = "done" /\ req[t].op = "batch" /\ req[t].ids = <<>>)
        => /\ res[t].ok
           /\ LET b == IF req[t].http THEN res[t].value.data ELSE res[t].value IN
              b = [successful |-> <<>>, failed |-> <<>>, total_requested |-> 0,
                   total_successful |-> 0, total_failed |-> 0]

\* C13, for the service alone: batch_generate_qr_codes called with the
\* empty list, not through the handler, returns the all-zero answer.
C13_EmptyBatchService ==
    \A t \in Tasks :
        (pc[t] = "done" /\ req[t].op = "batch" /\ req[t].ids = <<>> /\ ~req[t].http)
        => res[t] = Ok([successful |-> <<>>, failed |-> <<>>, total_requested |-> 0,
                        total_successful |-> 0, total_failed |-> 0])

\* C14: a property is eligible exactly when it is not marked removed (no
\* flag counting as not removed), has at least one image and has a price
\* above 0, whatever its other fields; and get_property_qr_info, when the
\* property is found, succeeds exactly for the eligible ones.
C14_EligibilityGate ==
    \A id \in DOMAIN properties :
        LET p == properties[id]
            gate == /\ p.removed # Some(TRUE)
                    /\ Len(p.images) >= 1
                    /\ p.price > 0
        IN /\ is_qr_eligible(p) = gate
           /\ \A q \in SomeProperties :
                 (q.removed = p.removed /\ q.images = p.images /\ q.price = p.price)
                 => is_qr_eligible(q) = is_qr_eligible(p)
           /\ \A t \in Tasks :
                 (/\ pc[t] = "done" /\ req[t].op = "qr_info"
                  /\ req[t].property_id = id
                  /\ (res[t].ok \/ res[t].error = "NotEligibleForQr"))
                 => res[t].ok = gate

\* C14, witness: a property with an image and no removed flag whose price
\* is 0 was refused as not eligible.
C14_Witness ==
    \E t \in Tasks :
        /\ pc[t] = "done" /\ req[t].op = "qr_info" /\ req[t].property_id = "p1"
        /\ properties["p1"].removed = None
        /\ Len(properties["p1"].images) = 1
        /\ properties["p1"].price = 0
        /\ ~res[t].ok /\ res[t].error = "NotEligibleForQr"

C16_DeleteSemantics ==
    [][\A t \in Tasks :
        (pc[t] = "del_remove" /\ pc'[t] = "done" /\ res'[t].ok)
        => LET id == req[t].ids[1]
               existed == Matching(qr_metadata, id) # {}
               Others(coll) == SelectSeq(coll, LAMBDA r : r.property_id # id)
           IN /\ res'[t].value = existed
              /\ get_existing_qr(qr_metadata', id, TRUE) = Err("PropertyNotFound", "")
              /\ delete_one(qr_metadata', id) = qr_metadata'
              /\ Others(qr_metadata') = Others(qr_metadata)
              /\ s3_objects' = s3_objects]_vars

\* C16, witness: a delete answered true that removed the record although
\* its image is still in the object store.
C16_Witness ==
    \E t \in Tasks :
        /\ pc[t] = "done" /\ req[t].op = "delete" /\ res[t] = Ok(TRUE)
        /\ Matching(qr_metadata, req[t].ids[1]) = {}
        /\ get_s3_key(req[t].ids[1]) \in s3_objects

(***************************************************************************)
(* Properties of concurrent updates.                                       *)
(***************************************************************************)

\* C17: two generate_qr_code calls with force_regenerate on the record of
\* one property, at version N when the first of them starts, served
\* concurrently, both successful and both with their read of the record
\* answered, leave one record whose version is N+1 or N+2, never less.
C17_RegenerationRace ==
    LET N == FirstRecord(RaceId, 0).qr_version IN
    (\A t \in Tasks :
        /\ pc[t] = "done" /\ req[t].op = "generate" /\ req[t].force_regenerate
        /\ res[t].ok /\ res[t].value.status = "Regenerated"
        /\ loc[t].calls.read_failed = 0)
    => /\ Cardinality(Matching(qr_metadata, RaceId)) = 1
       /\ get_existing_qr(qr_metadata, RaceId, TRUE).value.qr_version \in {N + 1, N + 2}

\* C17, witness: the lost increment.  Both regenerations succeeded, each
\* having read the record, and the record is at version N+1.
C17_Witness ==
    /\ \A t \in Tasks :
          /\ pc[t] = "done" /\ req[t].op = "generate" /\ req[t].force_regenerate
          /\ res[t].ok /\ res[t].value.status = "Regenerated"
          /\ loc[t].calls.read_failed = 0
          /\ loc[t].calls.upsert = 1
    /\ get_existing_qr(qr_metadata, RaceId, TRUE).value.qr_version
           = FirstRecord(RaceId, 0).qr_version + 1

\* C18: after the first k events of a sequence have been applied, one by
\* one, to a fresh aggregate, its total_scans is k and its success_rate is
\* 100 * (successful events among the first k) / k, the mean a single pass
\* over those k events gives.  Rates are compared as exact fractions.
C18_IncrementalSuccessRate ==
    (Len(property_analytics) = 1 /\ nscans >= 1 /\ nscans <= Len(scan_events))
    => LET a == property_analytics[1]
           successes == Cardinality({i \in 1..nscans : scan_events[i].redirect_success})
       IN /\ a.total_scans = nscans
          /\ a.success_rate = Frac(100 * successes, nscans)
          /\ a.success_rate[1] * nscans = 100 * successes * a.success_rate[2]

\* C18, witness: after a successful, a failed and a successful event the
\* rate is 200/3.
C18_Witness ==
    /\ nscans = 3 /\ Len(scan_events) = 3
    /\ scan_events[1].redirect_success
    /\ ~scan_events[2].redirect_success
    /\ scan_events[3].redirect_success
    /\ Len(property_analytics) = 1
    /\ property_analytics[1].total_scans = 3
    /\ property_analytics[1].success_rate = <<200, 3>>

\* C19: an update of a property's aggregate writes the whole document it
\* computed from its own earlier read, whatever the collection holds by
\* then (no compare-and-swap): after the write the stored aggregate is that
\* document, so a later write overwrites an earlier one; and the
\* total_scans of an aggregate never exceeds the number of events recorded
\* for its property.
C19_LastWriterWins ==
    [][/\ \A i \in 1..Len(property_analytics') :
             property_analytics'[i].total_scans
                 <= Cardinality({k \in 1..Len(scan_events') :
                        scan_events'[k].property_id = property_analytics'[i].property_id})
       /\ \A id \in PairIds :
             LET after == find_property_analytics(property_analytics', id) IN
             (find_property_analytics(property_analytics, id) # after)
             => \E j \in bg :
                   /\ j.kind = "property" /\ j.stage = "write" /\ j \notin bg'
                   /\ j.event.property_id = id
                   /\ after = j.doc]_vars

\* C19, witness: two events of one property have been recorded; the update
\* for one of them has written total_scans = 1, and the update for the
\* other, which read before that write, is about to write total_scans = 1
\* over it.
C19_Witness ==
    \E j \in bg :
        /\ j.kind = "property" /\ j.stage = "write"
        /\ Unwrap(j.doc).total_scans = 1
        /\ Len(scan_events) = 2
        /\ scan_events[1].property_id = j.event.property_id
        /\ scan_events[2].property_id = j.event.property_id
        /\ LET stored == find_property_analytics(property_analytics, j.event.property_id) IN
           /\ IsSome(stored) /\ Unwrap(stored).total_scans = 1
        /\ \A o \in bg : o.kind = "property" => o = j

\* C20: record_failed_scan does what record_scan does, with the event
\* marked failed: when its event is stored, the update of the property's
\* aggregate and the update of the system aggregate are started for it.
C20_FailedScanUpdatesAggregates ==
    [][\A t \in Tasks :
        (/\ pc[t] = "scan_record_failed" /\ pc'[t] = "done"
         /\ Len(scan_events') = Len(scan_events) + 1)
        => LET e == scan_events'[Len(scan_events')] IN
           /\ e.redirect_type = "Failed" /\ ~e.redirect_success
           /\ loc'[t].scan_id = Some(e.id)
           /\ bg' = bg \cup {PropertyJob(e), SystemJob(e)}]_vars

\* C20, for the event alone: the event record_failed_scan stores is the one
\* record_scan would store for the same scan, marked failed and carrying
\* the error reason, and its id is returned; no update is started.
C20_FailedScanEventOnly ==
    [][\A t \in Tasks :
        (/\ pc[t] = "scan_record_failed" /\ pc'[t] = "done"
         /\ Len(scan_events') = Len(scan_events) + 1)
        => LET e == scan_events'[Len(scan_events')] IN
           /\ e = add_metadata(
                      mark_failed(record_scan_event(loc[t].k, req[t].property_id, 1,
                                                    "QrCode", "Failed",
                                                    req[t].user_agent, now)),
                      "error_reason", "Property not found")
           /\ loc'[t].scan_id = Some(e.id)
           /\ bg' = bg]_vars

(***************************************************************************)
(* Further properties of the generator.                                    *)
(***************************************************************************)

\* C21: generate_missing_qr_codes, its listings answered, calls the batch
\* (without force_regenerate, reason BatchGeneration) for exactly the ids
\* of the properties that are eligible and have no record, and no step of
\* the call changes a record that is in the store.
C21_MissingTargetsDifference ==
    [][\A t \in Tasks :
        /\ (pc[t] = "idle" /\ req'[t].op = "generate_missing"
            /\ ~(pc'[t] = "done" /\ ~res'[t].ok))
           => /\ {req'[t].ids[i] : i \in 1..Len(req'[t].ids)}
                    = {id \in DOMAIN properties :
                          /\ is_qr_eligible(properties[id])
                          /\ Matching(qr_metadata, id) = {}}
              /\ ~req'[t].force_regenerate
              /\ req'[t].reason = "BatchGeneration"
        /\ req[t].op = "generate_missing"
           => \A i \in 1..Len(qr_metadata) :
                 i <= Len(qr_metadata') /\ qr_metadata'[i] = qr_metadata[i]]_vars

\* C21, what the call does: it calls the batch for every eligible
\* property, with or without a record.
C21_MissingListsAllEligible ==
    [][\A t \in Tasks :
        (pc[t] = "idle" /\ req'[t].op = "generate_missing"
         /\ ~(pc'[t] = "done" /\ ~res'[t].ok))
        => {req'[t].ids[i] : i \in 1..Len(req'[t].ids)}
               = {id \in DOMAIN properties : is_qr_eligible(properties[id])}]_vars

\* C22: a successful generate_qr_code call for a property id without a
\* record, with or without force_regenerate, stores a record with
\* qr_version 1, is_active true and scan_count 0.
C22_FirstGenerationVersionOne ==
    [][\A t \in Tasks :
        (/\ pc[t] = "gen_upsert" /\ req[t].op = "generate"
         /\ pc'[t] = "done" /\ res'[t].ok
         /\ Matching(qr_metadata, CurId(t)) = {})
        => LET r == get_existing_qr(qr_metadata', CurId(t), TRUE) IN
           /\ r.ok
           /\ r.value.qr_version = 1
           /\ r.value.is_active
           /\ r.value.scan_count = 0]_vars

\* C22, without force_regenerate: the same, for the calls made without it.
C22_FirstGenerationNoForce ==
    [][\A t \in Tasks :
        (/\ pc[t] = "gen_upsert" /\ req[t].op = "generate"
         /\ ~req[t].force_regenerate
         /\ pc'[t] = "done" /\ res'[t].ok
         /\ Matching(qr_metadata, CurId(t)) = {})
        => LET r == get_existing_qr(qr_metadata', CurId(t), TRUE) IN
           /\ r.ok
           /\ r.value.qr_version = 1
           /\ r.value.is_active
           /\ r.value.scan_count = 0]_vars

C24_RecordedTypeMatchesServed ==
    \A t \in Tasks :
        (pc[t] = "done" /\ req[t].op = "scan" /\ loc[t].found /\ loc[t].recorded)
        => /\ res[t].ok
           /\ \E k \in 1..Len(scan_events) :
                 /\ Some(scan_events[k].id) = loc[t].scan_id
                 /\ scan_events[k].redirect_type =
                        (IF res[t].value.kind = "redirect_page" THEN "DualRedirect"
                         ELSE IF res[t].value.url =
                                     daobitar_base_url \o "/property/" \o req[t].property_id
                         THEN "DaobitarOnly"
                         ELSE "BlockchainOnly")

\* C24, apart from the explorer hint on a property without on-chain id:
\* the same, for the scans that do not ask for the explorer or whose
\* property has an on-chain id.
C24_RecordedTypeMatchesUnlessFallback ==
    \A t \in Tasks :
        (/\ pc[t] = "done" /\ req[t].op = "scan" /\ loc[t].found /\ loc[t].recorded
         /\ (req[t].redirect = Some("blockchain")
                => IsSome(Unwrap(loc[t].property_info).onchain_id)))
        => /\ res[t].ok
           /\ \E k \in 1..Len(scan_events) :
                 /\ Some(scan_events[k].id) = loc[t].scan_id
                 /\ scan_events[k].redirect_type =
                        (IF res[t].value.kind = "redirect_page" THEN "DualRedirect"
                         ELSE IF res[t].value.url =
                                     daobitar_base_url \o "/property/" \o req[t].property_id
                         THEN "DaobitarOnly"
                         ELSE "BlockchainOnly")

\* C25: in every stored per-property aggregate the four device buckets add
\* up to total_scans.
C25_DeviceBucketsAccount ==
    \A i \in 1..Len(property_analytics) :
        LET a == property_analytics[i] IN
        a.device_breakdown.mobile + a.device_breakdown.desktop
            + a.device_breakdown.tablet + a.device_breakdown.unknown = a.total_scans

\* C25, as far as it goes: the buckets never add up to more than
\* total_scans, and an update for an event that carries device information
\* adds one to exactly one bucket.
C25_DeviceBucketsAtMost ==
    /\ \A i \in 1..Len(property_analytics) :
          LET a == property_analytics[i] IN
          a.device_breakdown.mobile + a.device_breakdown.desktop
              + a.device_breakdown.tablet + a.device_breakdown.unknown <= a.total_scans
    /\ \A j \in bg :
          (j.kind = "property" /\ j.stage = "write" /\ IsSome(j.event.device_info))
          => LET a == Unwrap(j.doc) IN
             a.device_breakdown.mobile + a.device_breakdown.desktop
                 + a.device_breakdown.tablet + a.device_breakdown.unknown = a.total_scans

\* C26: the device type of a stored event that has a user agent is decided
\* by the mobile markers first ("mobile", "android", "iphone": Mobile),
\* then by the tablet markers ("tablet", "ipad": Tablet), else Desktop.
C26_MobileBeforeTablet ==
    \A k \in 1..Len(scan_events) :
        IsSome(scan_events[k].user_agent)
        => LET ua == to_lowercase(Unwrap(scan_events[k].user_agent))
               mobile == \/ Contains(ua, "mobile") \/ Contains(ua, "android")
                         \/ Contains(ua, "iphone")
               tablet == Contains(ua, "tablet") \/ Contains(ua, "ipad")
           IN /\ IsSome(scan_events[k].device_info)
              /\ Unwrap(scan_events[k].device_info).device_type =
                     (IF mobile THEN "Mobile" ELSE IF tablet THEN "Tablet" ELSE "Desktop")

\* C26, the order the events show: the tablet markers decide first, then
\* the mobile markers.
C26_TabletBeforeMobile ==
    \A k \in 1..Len(scan_events) :
        IsSome(scan_events[k].user_agent)
        => LET ua == to_lowercase(Unwrap(scan_events[k].user_agent))
               mobile == \/ Contains(ua, "mobile") \/ Contains(ua, "android")
                         \/ Contains(ua, "iphone")
               tablet == Contains(ua, "tablet") \/ Contains(ua, "ipad")
           IN /\ IsSome(scan_events[k].device_info)
              /\ Unwrap(scan_events[k].device_info).device_type =
                     (IF tablet THEN "Tablet" ELSE IF mobile THEN "Mobile" ELSE "Desktop")

\* C27: every stored record has qr_code_hash = hash(qr_pattern), and its
\* qr_pattern is the payload generate_qr_code serialized for the record's
\* own property id at some time, the string it handed to the image
\* encoder, whose scan URL is {base}/scan/{property_id}.
C27_HashPatternConsistency ==
    \A i \in 1..Len(qr_metadata) :
        LET r == qr_metadata[i] IN
        /\ r.qr_code_hash = sha256_hex(r.qr_pattern)
        /\ \E t \in 0..MaxClock :
              /\ r.qr_pattern = to_json_string(QrCodeData_new(r.property_id, base_url, t))
              /\ QrCodeData_new(r.property_id, base_url, t).scan_url
                     = base_url \o "/scan/" \o r.property_id
        /\ Contains(r.qr_pattern, "scanUrl:" \o base_url \o "/scan/" \o r.property_id \o ",")

\* C27, witness: a record regenerated at a later time than it was created:
\* its pattern is the payload of the later time and its hash is the hash of
\* that pattern.
C27_Witness ==
    \E i \in 1..Len(qr_metadata) :
        LET r == qr_metadata[i] IN
        /\ r.qr_version = 2
        /\ r.generated_at = 0 /\ r.last_updated = 1
        /\ r.qr_pattern = to_json_string(QrCodeData_new(r.property_id, base_url, 1))
        /\ r.qr_code_hash = sha256_hex(r.qr_pattern)

C28_NothingListed ==
    \A e \in ExpiryDays :
        get_qr_codes_needing_regeneration(qr_metadata, e, now) = <<>>

\* C28, the date the listing filters on: a forced regeneration that has read
\* the existing record and succeeds leaves the record's generated_at as it
\* was.
C28_RegenerationKeepsGeneratedAt ==
    [][\A t \in Tasks :
        (/\ pc[t] = "gen_upsert" /\ req[t].op = "generate"
         /\ req[t].force_regenerate
         /\ loc[t].calls.read_failed = 0
         /\ pc'[t] = "done" /\ res'[t].ok
         /\ Matching(qr_metadata, CurId(t)) # {})
        => LET old == get_existing_qr(qr_metadata, CurId(t), TRUE)
               new == get_existing_qr(qr_metadata', CurId(t), TRUE)
           IN old.ok /\ new.ok
              => new.value.generated_at = old.value.generated_at]_vars

\* C28: an active record older than the cutoff, after a forced regeneration.
C28_ExpiredAfterRegeneration ==
    \E i \in 1..Len(qr_metadata) :
        /\ qr_metadata[i].is_active
        /\ qr_metadata[i].qr_version >= 2
        /\ qr_metadata[i].generated_at < now
        /\ qr_metadata[i].last_updated = now

\* The period counters of one aggregate are in order.
PeriodOrdered(a) ==
    /\ a.scans_today <= a.scans_this_week
    /\ a.scans_today <= a.scans_this_month
    /\ a.scans_today <= a.total_scans
    /\ a.scans_this_week <= a.total_scans
    /\ a.scans_this_month <= a.total_scans

\* No counter of b is lower than in a.
CountersNotLower(a, b) ==
    /\ a.total_scans <= b.total_scans
    /\ a.scans_today <= b.scans_today
    /\ a.scans_this_week <= b.scans_this_week
    /\ a.scans_this_month <= b.scans_this_month

\* C29: in every stored per-property aggregate scans_today <=
\* scans_this_week, scans_today <= scans_this_month and each period counter
\* <= total_scans; and no step lowers total_scans or a period counter of a
\* stored aggregate.
C29_PeriodCounterOrdering ==
    [][/\ \A i \in 1..Len(property_analytics') : PeriodOrdered(property_analytics'[i])
       /\ \A i \in 1..Len(property_analytics) :
             /\ i <= Len(property_analytics')
             /\ CountersNotLower(property_analytics[i], property_analytics'[i])]_vars

\* C29, as the code has it: every stored aggregate has its counters in
\* order; the document an update computes has no counter lower than the
\* document it read (nothing is reset when the day, the week or the month
\* changes).  What is stored may still go down, when an update that read
\* before another update's write replaces the document afterwards.
C29_PeriodCountersOrderedNotReset ==
    [][/\ \A i \in 1..Len(property_analytics') : PeriodOrdered(property_analytics'[i])
       /\ \A j \in bg' \ bg :
             (j.kind = "property" /\ j.stage = "write")
             => LET found == find_property_analytics(property_analytics, j.event.property_id)
                    d == Unwrap(j.doc)
                IN /\ PeriodOrdered(d)
                   /\ d.total_scans >= 1
                   /\ IsSome(found)
                      => /\ CountersNotLower(Unwrap(found), d)
                         /\ d.total_scans = Unwrap(found).total_scans + 1]_vars

\* C29: an aggregate written after the day, the week and the month have
\* changed, its three period counters still counting the scans of the days
\* before, the day's counter below the week's.
C29_Witness ==
    /\ now = 1
    /\ \E i \in 1..Len(property_analytics) :
          LET a == property_analytics[i] IN
          /\ a.total_scans = 3
          /\ a.scans_today = 1
          /\ a.scans_this_week = 2
          /\ a.scans_this_month = 2
          /\ a.last_updated = 1

\* C30: a scan of a property that exists but is not eligible, with or
\* without an active QR record, goes the way of an unknown property: the
\* lookup fails, the error page "Property not found" is the answer, one
\* Failed ScanEvent is inserted (none when the insert is refused), no
\* background update is started for it and its click counter is left alone;
\* so that no aggregate and no successful event ever exists for it.
C30_IneligibleScan ==
    [][/\ \A t \in Tasks :
          /\ (/\ pc[t] = "idle" /\ req'[t].op = "scan"
              /\ req'[t].property_id \in DOMAIN properties
              /\ ~is_qr_eligible(properties[req'[t].property_id]))
             => /\ pc'[t] = "scan_record_failed"
                /\ UNCHANGED <<properties, scan_events, property_analytics, bg>>
          /\ (/\ pc[t] = "scan_record_failed" /\ pc'[t] # "scan_record_failed"
              /\ req[t].property_id \in DOMAIN properties)
             => /\ pc'[t] = "done"
                /\ res'[t] = Ok(ErrorPage("Property not found", req[t].property_id))
                /\ UNCHANGED <<properties, property_analytics, bg, qr_metadata>>
                /\ \/ scan_events' = scan_events
                   \/ /\ Len(scan_events') = Len(scan_events) + 1
                      /\ SubSeq(scan_events', 1, Len(scan_events)) = scan_events
                      /\ LET e == scan_events'[Len(scan_events')] IN
                         /\ e.property_id = req[t].property_id
                         /\ e.redirect_type = "Failed"
                         /\ ~e.redirect_success
       /\ \A id \in DOMAIN properties' :
             ~is_qr_eligible(properties'[id])
             => /\ properties'[id].clicks = 0
                /\ Matching(property_analytics', id) = {}
                /\ \A j \in bg' : j.event.property_id # id
                /\ \A i \in 1..Len(scan_events') :
                      scan_events'[i].property_id = id
                      => scan_events'[i].redirect_type = "Failed"]_vars

\* C30, witness: the property has an active record and is not eligible; its
\* scan has been answered with the error page and its Failed event stored.
C30_Witness ==
    \E t \in Tasks :
        /\ pc[t] = "done" /\ req[t].op = "scan" /\ req[t].property_id = IneligibleId
        /\ ~is_qr_eligible(properties[IneligibleId])
        /\ properties[IneligibleId].price = 0
        /\ get_existing_qr(qr_metadata, IneligibleId, TRUE).ok
        /\ get_existing_qr(qr_metadata, IneligibleId, TRUE).value.is_active
        /\ res[t] = Ok(ErrorPage("Property not found", IneligibleId))
        /\ Len(scan_events) = 1
        /\ scan_events[1].property_id = IneligibleId
        /\ scan_events[1].redirect_type = "Failed"
        /\ properties[IneligibleId].clicks = 0
        /\ property_analytics = <<>>
====
